---- MODULE Spec2Model ----
(***************************************************************************)
(* A model of the StorageAPI crate: the Storage backends (Global,          *)
(* InlineStorage, SlotStorage), and the containers built on them (Vec,     *)
(* String, Rc, Box, VecIntoIter, VecDeque).                                *)
(*                                                                         *)
(* Memory is a flat, byte-addressed address space.  A Storage hands out    *)
(* handles; resolve turns a handle into an address; the containers do      *)
(* pointer arithmetic on resolved addresses, as the code does.             *)
(***************************************************************************)
EXTENDS Integers, Naturals, Sequences, FiniteSets, TLC

VARIABLES
    cfg,      \* what the run is about: backend, element type, storage parameters
    mem,      \* the address space: address -> byte, or Uninit
    heap,     \* the process heap behind Global: the set of live blocks
    vec,      \* the Vec (or the Vec<u8> inside a String): handle, length, capacity
    ub,       \* TRUE once an operation has accessed memory outside its allocation
    last,     \* the last operation: its arguments, its result, the storage calls it made
    rc,       \* the Rc allocation and the Rc instances that refer to it
    blk,      \* the allocation a direct user of a Storage holds
    own,      \* the owner of an allocation other than a Vec: a Box, a VecIntoIter,
              \* a VecDeque, or the raw parts a container was split into
    hist      \* the values made, moved out and destroyed so far, and the deallocations

vars == <<cfg, mem, heap, vec, ub, last, rc, blk, own, hist>>

----------------------------------------------------------------------------
(* Bounds of the model *)

UsizeBits == 8         \* width of usize on the modelled machine
MaxAlignLog == 1       \* alignments are 2^0 .. 2^MaxAlignLog
ArenaSize == 6         \* bytes of one heap arena
MaxRcs == 3            \* Rc instances that exist at the same time
MaxElems == 3          \* largest InlineStorage<[T; n]>, largest SlotStorage buffer,
                       \* and the length up to which elements are added

UsizeMax == 2^UsizeBits - 1
IsizeMax == 2^(UsizeBits - 1) - 1

Aligns == { 2^k : k \in 0..MaxAlignLog }
MaxAlign == 2^MaxAlignLog
MaxLen == MaxElems
MaxExtra == MaxElems - 1
MaxSlotLen == MaxElems
MaxInlineElems == MaxElems

\* the address space: dangling addresses, then the memory handed out
HeapBase == 2 * MaxAlign
ArenaIds == {0, 1}
HeapEnd == HeapBase + 2 * ArenaSize
RegionBase == HeapBase
MemSize == HeapEnd + 2 * MaxAlign

Uninit == -1           \* a byte that holds no initialised value (MaybeUninit)

Addrs == 0 .. (MemSize - 1)
Values == {1, 2}

Min(a, b) == IF a < b THEN a ELSE b
Max(a, b) == IF a > b THEN a ELSE b

----------------------------------------------------------------------------
(* core::alloc::Layout *)

Layout(size, align) == [size |-> size, align |-> align]

\* Layout::array::<T>(n): Err when n * size_of::<T>() overflows isize::MAX
\* once rounded up to the alignment.
LayoutArrayOk(elem, n) == n * elem.size <= IsizeMax - (elem.align - 1)
LayoutArray(elem, n) == Layout(n * elem.size, elem.align)

\* <*const u8>::align_offset(align): bytes to add to p to make it aligned
AlignOffset(p, align) == (align - (p % align)) % align

----------------------------------------------------------------------------
(* Memory *)

MemRead(m, addr, n) ==
    [i \in 1..n |-> IF (addr + i - 1) \in DOMAIN m THEN m[addr + i - 1] ELSE Uninit]

MemWrite(m, addr, bytes) ==
    [a \in DOMAIN m |->
        IF a >= addr /\ a < addr + Len(bytes) THEN bytes[a - addr + 1] ELSE m[a]]

MemFill(m, addr, n, b) ==
    [a \in DOMAIN m |-> IF a >= addr /\ a < addr + n THEN b ELSE m[a]]

\* ptr::copy (memmove): the n source bytes are read before any is written
MemCopy(m, src, dst, n) == MemWrite(m, dst, MemRead(m, src, n))

\* a value of type T as size_of::<T>() little-endian bytes, and back
Encode(v, size) == [j \in 1..size |-> (v \div (256^(j - 1))) % 256]

RECURSIVE DecodeFrom(_, _)
DecodeFrom(bytes, j) ==
    IF j > Len(bytes) THEN 0
    ELSE bytes[j] * (256^(j - 1)) + DecodeFrom(bytes, j + 1)

Decode(bytes) ==
    IF \E j \in 1..Len(bytes) : bytes[j] = Uninit THEN Uninit ELSE DecodeFrom(bytes, 1)

----------------------------------------------------------------------------
(* The world an operation runs in: memory, heap, the storage calls made so *)
(* far by the running operation, and whether it left its allocation.       *)

World(m, h) == [mem |-> m, heap |-> h, calls |-> <<>>, ub |-> FALSE]

Log(w, op, layout) ==
    [w EXCEPT !.calls = Append(@, [op |-> op, size |-> layout.size, align |-> layout.align])]

\* results of allocate / grow / shrink
AllocOk(handle, size, w) == [ok |-> TRUE, handle |-> handle, size |-> size, w |-> w]
AllocErr(w) == [ok |-> FALSE, handle |-> 0, size |-> 0, w |-> w]

----------------------------------------------------------------------------
(* InlineStorage<T>: s.size = size_of::<T>(), s.align = align_of::<T>(),   *)
(* s.base = the address of the storage value itself.                       *)

InlineStorage(base, size, align) ==
    [kind |-> "Inline", base |-> base, size |-> size, align |-> align]

InlineResolve(s, handle) == s.base

\* an allocate that checks the size and forgets the alignment
InlineAllocate_size_only(s, w, layout) ==
    IF layout.size <= s.size
    THEN {AllocOk(0, s.size, w)}
    ELSE {AllocErr(w)}

InlineAllocate(s, w, layout) ==
    IF layout.align <= s.align /\ layout.size <= s.size
    THEN {AllocOk(0, s.size, w)}
    ELSE {AllocErr(w)}

InlineGrow(s, w, old_layout, new_layout, old_alloc) == InlineAllocate(s, w, new_layout)

InlineShrink(s, w, old_layout, new_layout, old_alloc) == InlineAllocate(s, w, new_layout)

----------------------------------------------------------------------------
(* SlotStorage: s.base = address of the borrowed buffer, s.size = its      *)
(* length.  The handle is the offset into the buffer.                      *)

SlotStorage(base, len) == [kind |-> "Slot", base |-> base, size |-> len, align |-> 1]

SlotResolve(s, handle) == s.base + handle

\* an allocate that places the allocation behind the bytes in use
SlotAllocate_bumping(s, w, layout) ==
    LET used == { o \in 0..(s.size - 1) : w.mem[SlotResolve(s, o)] # Uninit }
        from == IF used = {} THEN 0
                ELSE (CHOOSE o \in used : \A p \in used : p <= o) + 1
        offset == from + AlignOffset(SlotResolve(s, from), layout.align)
    IN IF s.size < offset THEN {AllocErr(w)}
       ELSE {AllocOk(offset, s.size - offset, w)}

SlotAllocate(s, w, layout) ==

    LET offset == AlignOffset(SlotResolve(s, 0), layout.align) IN
    IF offset = UsizeMax THEN {AllocErr(w)}
    ELSE IF s.size < offset THEN {AllocErr(w)}      \* checked_sub
    ELSE {AllocOk(offset, s.size - offset, w)}

\* copies n bytes from the old to the new allocation; the copy leaves the
\* buffer when either range does
SlotCopy(s, w, old_handle, new_handle, n) ==
    LET old_alloc == SlotResolve(s, old_handle)
        new_alloc == SlotResolve(s, new_handle)
        inside == old_handle + n <= s.size /\ new_handle + n <= s.size
    IN [w EXCEPT !.mem = MemCopy(@, old_alloc, new_alloc, n),
                 !.ub = @ \/ ~inside]

SlotGrow(s, w, old_layout, new_layout, old_handle) ==
    { IF r.ok
      THEN AllocOk(r.handle, r.size, SlotCopy(s, r.w, old_handle, r.handle, old_layout.size))
      ELSE r
      : r \in SlotAllocate(s, w, new_layout) }

SlotShrink(s, w, old_layout, new_layout, old_handle) ==
    { IF r.ok
      THEN AllocOk(r.handle, r.size, SlotCopy(s, r.w, old_handle, r.handle, new_layout.size))
      ELSE r
      : r \in SlotAllocate(s, w, new_layout) }

----------------------------------------------------------------------------
(* The process heap (alloc::alloc::{alloc, dealloc, realloc}): it may      *)
(* refuse any request.  It keeps one block per arena, at the first aligned *)
(* address of the arena.  A block is [addr, size, align]: the layout it   *)
(* was given, which dealloc and realloc must be handed again.              *)

Overlaps(a1, n1, a2, n2) == a1 < a2 + n2 /\ a2 < a1 + n1

ArenaBase(i) == HeapBase + i * ArenaSize

\* the addresses at which the heap can place n bytes aligned to `align`
\* next to the live blocks h
Placements(h, n, align) ==
    { a \in { ArenaBase(i) + AlignOffset(ArenaBase(i), align) : i \in ArenaIds } :
        \E i \in ArenaIds :
            /\ a >= ArenaBase(i) /\ a + n <= ArenaBase(i) + ArenaSize
            /\ \A b \in h : ~Overlaps(ArenaBase(i), ArenaSize, b.addr, b.size) }

Block(a, n, align) == [addr |-> a, size |-> n, align |-> align]

\* alloc(layout): the set of outcomes, 0 standing for the null pointer
HeapAlloc(w, layout) ==
    { [ptr |-> 0, w |-> w] } \cup
    { [ptr |-> a,
       w |-> [w EXCEPT !.heap = @ \cup {Block(a, layout.size, layout.align)},
                       !.mem = MemFill(@, a, layout.size, Uninit)]]
      : a \in Placements(w.heap, layout.size, layout.align) }

\* dealloc(ptr, layout): freeing what is not a live block of that layout
\* is outside the heap's contract
HeapDealloc(w, ptr, layout) ==
    IF Block(ptr, layout.size, layout.align) \in w.heap
    THEN [w EXCEPT !.heap = @ \ {Block(ptr, layout.size, layout.align)},
                   !.mem = MemFill(@, ptr, layout.size, Uninit)]
    ELSE [w EXCEPT !.ub = TRUE]

\* realloc(ptr, layout, new_size): null and nothing changed, or a block of
\* new_size bytes aligned to layout.align that starts with the old bytes
HeapRealloc(w, ptr, layout, new_size) ==
    IF Block(ptr, layout.size, layout.align) \notin w.heap
    THEN { [ptr |-> 0, w |-> [w EXCEPT !.ub = TRUE]] }
    ELSE
    LET others == w.heap \ {Block(ptr, layout.size, layout.align)}
        keep == MemRead(w.mem, ptr, Min(layout.size, new_size))
        cleared == MemFill(w.mem, ptr, layout.size, Uninit)
    IN  { [ptr |-> 0, w |-> w] } \cup
        { [ptr |-> a,
           w |-> [w EXCEPT !.heap = others \cup {Block(a, new_size, layout.align)},
                           !.mem = MemWrite(MemFill(cleared, a, new_size, Uninit), a, keep)]]
          : a \in { x \in Placements(others, new_size, layout.align) :
                       x = ptr \/ ~Overlaps(x, new_size, ptr, layout.size) } }

----------------------------------------------------------------------------
(* Global: the handle is the pointer.                                      *)

Global == [kind |-> "Global", base |-> 0, size |-> 0, align |-> 1]

GlobalResolve(s, handle) == handle

\* Layout::dangling(): a well-aligned address that points to nothing
Dangling(layout) == layout.align

\* an allocate that asks the heap whatever the size
GlobalAllocate_through_heap(s, w, layout) ==
    { IF r.ptr # 0 THEN AllocOk(r.ptr, layout.size, r.w) ELSE AllocErr(r.w)
      : r \in HeapAlloc(w, layout) }

GlobalAllocate(s, w, layout) ==

    IF layout.size = 0
    THEN {AllocOk(Dangling(layout), 0, w)}
    ELSE { IF r.ptr # 0 THEN AllocOk(r.ptr, layout.size, r.w) ELSE AllocErr(r.w)
           : r \in HeapAlloc(w, layout) }

GlobalDeallocate(s, w, layout, handle) ==
    IF layout.size = 0 THEN w ELSE HeapDealloc(w, handle, layout)

realloc(s, w, old_layout, new_layout, old_alloc) ==
    IF old_layout.size = 0 /\ new_layout.size = 0 THEN {AllocOk(old_alloc, 0, w)}
    ELSE IF old_layout.size = 0 THEN GlobalAllocate(s, w, new_layout)
    ELSE IF new_layout.size = 0
    THEN { IF r.ok
           THEN AllocOk(r.handle, r.size, GlobalDeallocate(s, r.w, old_layout, old_alloc))
           ELSE r
           : r \in GlobalAllocate(s, w, new_layout) }
    ELSE IF old_layout.align >= new_layout.align
    THEN { IF r.ptr # 0 THEN AllocOk(r.ptr, new_layout.size, r.w) ELSE AllocErr(r.w)
           : r \in HeapRealloc(w, old_alloc, old_layout, new_layout.size) }
    ELSE { IF r.ok
           THEN LET copied == [r.w EXCEPT
                                 !.mem = MemCopy(@, old_alloc, r.handle, old_layout.size),
                                 !.ub = @ \/ old_layout.size > new_layout.size]
                IN AllocOk(r.handle, new_layout.size,
                           GlobalDeallocate(s, copied, old_layout, old_alloc))
           ELSE r
           : r \in GlobalAllocate(s, w, new_layout) }

GlobalGrow(s, w, old_layout, new_layout, handle) == realloc(s, w, old_layout, new_layout, handle)

GlobalShrink(s, w, old_layout, new_layout, handle) == realloc(s, w, old_layout, new_layout, handle)

----------------------------------------------------------------------------
(* The Storage trait, dispatched on the backend.  Every call is logged.    *)

Resolve(s, handle) ==
    CASE s.kind = "Global" -> GlobalResolve(s, handle)
      [] s.kind = "Inline" -> InlineResolve(s, handle)
      [] s.kind = "Slot"   -> SlotResolve(s, handle)

Allocate(s, w, layout) ==
    LET lw == Log(w, "allocate", layout) IN
    CASE s.kind = "Global" -> GlobalAllocate(s, lw, layout)
      [] s.kind = "Inline" -> InlineAllocate(s, lw, layout)
      [] s.kind = "Slot"   -> SlotAllocate(s, lw, layout)

Deallocate(s, w, layout, handle) ==
    LET lw == Log(w, "deallocate", layout) IN
    CASE s.kind = "Global" -> GlobalDeallocate(s, lw, layout, handle)
      [] s.kind = "Inline" -> lw
      [] s.kind = "Slot"   -> lw

Grow(s, w, old_layout, new_layout, handle) ==
    LET lw == Log(w, "grow", new_layout) IN
    CASE s.kind = "Global" -> GlobalGrow(s, lw, old_layout, new_layout, handle)
      [] s.kind = "Inline" -> InlineGrow(s, lw, old_layout, new_layout, handle)
      [] s.kind = "Slot"   -> SlotGrow(s, lw, old_layout, new_layout, handle)

Shrink(s, w, old_layout, new_layout, handle) ==
    LET lw == Log(w, "shrink", new_layout) IN
    CASE s.kind = "Global" -> GlobalShrink(s, lw, old_layout, new_layout, handle)
      [] s.kind = "Inline" -> InlineShrink(s, lw, old_layout, new_layout, handle)
      [] s.kind = "Slot"   -> SlotShrink(s, lw, old_layout, new_layout, handle)

\* the bytes the storage gave to the allocation at `handle`: an access
\* to [addr, addr + n) is inside the allocation iff it lies in this range
Extent(s, w, handle) ==
    CASE s.kind = "Global" ->
            IF \E b \in w.heap : b.addr = handle
            THEN (CHOOSE b \in w.heap : b.addr = handle).size ELSE 0
      [] s.kind = "Inline" -> s.size
      [] s.kind = "Slot"   -> IF handle <= s.size THEN s.size - handle ELSE 0

----------------------------------------------------------------------------
(* Vec<T, S>: v = [live, handle, length, capacity, storage]; `elem` is the *)
(* layout of T, `s` the storage the Vec owns.  Every operation yields the  *)
(* set of its possible outcomes [ok, v, w, value, alloc_error].            *)

NoVec == [live |-> FALSE, handle |-> 0, length |-> 0, capacity |-> 0]

Outcome(ok, v, w, value, alloc_error) ==
    [ok |-> ok, v |-> v, w |-> w, value |-> value, alloc_error |-> alloc_error]

\* capacity_in_bytes.checked_div(size_of::<T>()).unwrap_or(usize::MAX)
CapacityOf(elem, capacity_in_bytes) ==
    IF elem.size = 0 THEN UsizeMax ELSE capacity_in_bytes \div elem.size

\* address of element `index`
ElemPtr(s, elem, v, index) == Resolve(s, v.handle) + index * elem.size

\* whether the bytes of elements index .. index + n - 1 lie in the allocation
ElemsInside(s, elem, v, w, index, n) ==
    n = 0 \/ (index + n) * elem.size <= Extent(s, w, v.handle)

as_slice(s, elem, v, m) ==
    [i \in 1..v.length |-> Decode(MemRead(m, ElemPtr(s, elem, v, i - 1), elem.size))]

\* struct Vec { handle, length, capacity, storage }
VecOf(storage, handle, length, capacity) ==
    [live |-> TRUE, handle |-> handle, length |-> length, capacity |-> capacity,
     storage |-> storage]

\* Vec::with_capacity_in; s is the storage at the place where the new Vec
\* holds it
with_capacity_in(s, elem, w, capacity) ==
    IF ~LayoutArrayOk(elem, capacity) THEN {Outcome(FALSE, NoVec, w, 0, TRUE)}
    ELSE { IF r.ok
           THEN Outcome(TRUE, VecOf(s, r.handle, 0, CapacityOf(elem, r.size)),
                        r.w, 0, FALSE)
           ELSE Outcome(FALSE, NoVec, r.w, 0, TRUE)
           : r \in Allocate(s, w, LayoutArray(elem, capacity)) }

new_in(s, elem, w) == with_capacity_in(s, elem, w, 0)

reserve_exact(s, elem, v, w, extra_capacity) ==
    LET new_capacity == v.length + extra_capacity IN
    IF new_capacity > UsizeMax THEN {Outcome(FALSE, v, w, 0, TRUE)}
    ELSE IF new_capacity < v.capacity THEN {Outcome(TRUE, v, w, 0, FALSE)}
    ELSE IF ~LayoutArrayOk(elem, new_capacity) THEN {Outcome(FALSE, v, w, 0, TRUE)}
    ELSE { IF r.ok
           THEN Outcome(TRUE, [v EXCEPT !.handle = r.handle,
                                        !.capacity = CapacityOf(elem, r.size)], r.w, 0, FALSE)
           ELSE Outcome(FALSE, v, r.w, 0, TRUE)
           : r \in Grow(s, w, LayoutArray(elem, v.capacity),
                        LayoutArray(elem, new_capacity), v.handle) }

\* a reserve that gives up when the doubled request is refused
reserve_without_fallback(s, elem, v, w, extra_capacity) ==
    LET new_capacity == v.length + extra_capacity
        doubled_capacity == Max(v.capacity * 2, 1)
    IN
    IF new_capacity > UsizeMax THEN {Outcome(FALSE, v, w, 0, TRUE)}
    ELSE IF new_capacity <= v.capacity THEN {Outcome(TRUE, v, w, 0, FALSE)}
    ELSE IF v.capacity * 2 <= UsizeMax /\ doubled_capacity > new_capacity
    THEN reserve_exact(s, elem, v, w, doubled_capacity)
    ELSE reserve_exact(s, elem, v, w, extra_capacity)

reserve(s, elem, v, w, extra_capacity) ==

    LET new_capacity == v.length + extra_capacity
        doubled_capacity == Max(v.capacity * 2, 1)
    IN
    IF new_capacity > UsizeMax THEN {Outcome(FALSE, v, w, 0, TRUE)}
    ELSE IF new_capacity <= v.capacity THEN {Outcome(TRUE, v, w, 0, FALSE)}
    ELSE IF v.capacity * 2 <= UsizeMax /\ doubled_capacity > new_capacity
    THEN UNION { IF r.ok THEN {r} ELSE reserve_exact(s, elem, r.v, r.w, extra_capacity)
                 : r \in reserve_exact(s, elem, v, w, doubled_capacity) }
    ELSE reserve_exact(s, elem, v, w, extra_capacity)

\* a shrink_to_fit that gives the whole buffer back
shrink_to_fit_to_nothing(s, elem, v, w) ==
    IF v.capacity = v.length THEN {Outcome(TRUE, v, w, 0, FALSE)}
    ELSE { IF r.ok
           THEN Outcome(TRUE, [v EXCEPT !.handle = r.handle,
                                        !.capacity = CapacityOf(elem, r.size)], r.w, 0, FALSE)
           ELSE Outcome(FALSE, v, r.w, 0, TRUE)
           : r \in Shrink(s, w, LayoutArray(elem, v.capacity),
                          LayoutArray(elem, 0), v.handle) }

shrink_to_fit(s, elem, v, w) ==

    IF v.capacity = v.length THEN {Outcome(TRUE, v, w, 0, FALSE)}
    ELSE { IF r.ok
           THEN Outcome(TRUE, [v EXCEPT !.handle = r.handle,
                                        !.capacity = CapacityOf(elem, r.size)], r.w, 0, FALSE)
           ELSE Outcome(FALSE, v, r.w, 0, TRUE)
           : r \in Shrink(s, w, LayoutArray(elem, v.capacity),
                          LayoutArray(elem, v.length), v.handle) }

\* a push that counts the element before it has room for it
push_counting_first(s, elem, v, w, value) ==
    { IF ~r.ok THEN Outcome(FALSE, [r.v EXCEPT !.length = @ + 1], r.w, value, TRUE)
      ELSE LET ptr == ElemPtr(s, elem, r.v, r.v.length) IN
           Outcome(TRUE, [r.v EXCEPT !.length = @ + 1],
                   [r.w EXCEPT !.mem = MemWrite(@, ptr, Encode(value, elem.size)),
                               !.ub = @ \/ ~ElemsInside(s, elem, r.v, r.w, r.v.length, 1)],
                   value, FALSE)
      : r \in reserve(s, elem, v, w, 1) }

\* a push that writes every value to the first slot
push_at_front(s, elem, v, w, value) ==
    { IF ~r.ok THEN Outcome(FALSE, r.v, r.w, value, TRUE)
      ELSE LET ptr == ElemPtr(s, elem, r.v, 0) IN
           Outcome(TRUE, [r.v EXCEPT !.length = @ + 1],
                   [r.w EXCEPT !.mem = MemWrite(@, ptr, Encode(value, elem.size)),
                               !.ub = @ \/ ~ElemsInside(s, elem, r.v, r.w, r.v.length, 1)],
                   value, FALSE)
      : r \in reserve(s, elem, v, w, 1) }

push(s, elem, v, w, value) ==
    { IF ~r.ok THEN Outcome(FALSE, r.v, r.w, value, TRUE)
      ELSE LET ptr == ElemPtr(s, elem, r.v, r.v.length) IN
           Outcome(TRUE, [r.v EXCEPT !.length = @ + 1],
                   [r.w EXCEPT !.mem = MemWrite(@, ptr, Encode(value, elem.size)),
                               !.ub = @ \/ ~ElemsInside(s, elem, r.v, r.w, r.v.length, 1)],
                   value, FALSE)
      : r \in reserve(s, elem, v, w, 1) }

\* an insert that reserves before it looks at the index
insert_reserving_first(s, elem, v, w, index, value) ==
    { IF ~r.ok THEN Outcome(FALSE, r.v, r.w, value, TRUE)
      ELSE IF index > v.length THEN Outcome(FALSE, r.v, r.w, value, FALSE)
      ELSE LET ptr == ElemPtr(s, elem, r.v, index)
               shifted == MemCopy(r.w.mem, ptr, ptr + elem.size,
                                  (r.v.length - index) * elem.size)
           IN Outcome(TRUE, [r.v EXCEPT !.length = @ + 1],
                      [r.w EXCEPT !.mem = MemWrite(shifted, ptr, Encode(value, elem.size)),
                                  !.ub = @ \/ ~ElemsInside(s, elem, r.v, r.w, index,
                                                           r.v.length - index + 1)],
                      value, FALSE)
      : r \in reserve(s, elem, v, w, 1) }

insert(s, elem, v, w, index, value) ==
    IF index > v.length THEN {Outcome(FALSE, v, w, value, FALSE)}
    ELSE
    { IF ~r.ok THEN Outcome(FALSE, r.v, r.w, value, TRUE)
      ELSE LET ptr == ElemPtr(s, elem, r.v, index)
               shifted == MemCopy(r.w.mem, ptr, ptr + elem.size,
                                  (r.v.length - index) * elem.size)
           IN Outcome(TRUE, [r.v EXCEPT !.length = @ + 1],
                      [r.w EXCEPT !.mem = MemWrite(shifted, ptr, Encode(value, elem.size)),
                                  !.ub = @ \/ ~ElemsInside(s, elem, r.v, r.w, index,
                                                           r.v.length - index + 1)],
                      value, FALSE)
      : r \in reserve(s, elem, v, w, 1) }

\* a pop that hands out the first element
pop_first(s, elem, v, w) ==
    IF v.length = 0 THEN {Outcome(FALSE, v, w, 0, FALSE)}
    ELSE LET nv == [v EXCEPT !.length = @ - 1] IN
         {Outcome(TRUE, nv, w,
                  Decode(MemRead(w.mem, ElemPtr(s, elem, nv, 0), elem.size)), FALSE)}

\* value 0 with ok = FALSE stands for None
pop(s, elem, v, w) ==
    IF v.length = 0 THEN {Outcome(FALSE, v, w, 0, FALSE)}
    ELSE LET nv == [v EXCEPT !.length = @ - 1] IN
         {Outcome(TRUE, nv, w,
                  Decode(MemRead(w.mem, ElemPtr(s, elem, nv, nv.length), elem.size)), FALSE)}

\* a remove that leaves the tail where it is
remove_without_shift(s, elem, v, w, index) ==
    IF index >= v.length THEN {Outcome(FALSE, v, w, 0, FALSE)}
    ELSE LET nv == [v EXCEPT !.length = @ - 1]
             ptr == ElemPtr(s, elem, nv, index)
         IN {Outcome(TRUE, nv, w, Decode(MemRead(w.mem, ptr, elem.size)), FALSE)}

remove(s, elem, v, w, index) ==
    IF index >= v.length THEN {Outcome(FALSE, v, w, 0, FALSE)}
    ELSE LET nv == [v EXCEPT !.length = @ - 1]
             ptr == ElemPtr(s, elem, nv, index)
         IN {Outcome(TRUE, nv,
                     [w EXCEPT !.mem = MemCopy(@, ptr + elem.size, ptr,
                                               (nv.length - index) * elem.size)],
                     Decode(MemRead(w.mem, ptr, elem.size)), FALSE)}

RECURSIVE EncodeAll(_, _)
EncodeAll(values, size) ==
    IF values = <<>> THEN <<>>
    ELSE Encode(Head(values), size) \o EncodeAll(Tail(values), size)

extend_from_slice(s, elem, v, w, values) ==
    LET index == v.length
        length == Len(values)
    IN
    { IF ~r.ok THEN Outcome(FALSE, r.v, r.w, 0, TRUE)
      ELSE LET ptr == ElemPtr(s, elem, r.v, index) IN
           Outcome(TRUE, [r.v EXCEPT !.length = @ + length],
                   [r.w EXCEPT !.mem = MemWrite(@, ptr, EncodeAll(values, elem.size)),
                               !.ub = @ \/ ~ElemsInside(s, elem, r.v, r.w, index, length)],
                   0, FALSE)
      : r \in reserve(s, elem, v, w, length) }

----------------------------------------------------------------------------
(* String<S>: a Vec<u8, S> whose bytes are UTF-8.  A char is its code      *)
(* point; a str is the sequence of its UTF-8 bytes.                        *)

U8 == Layout(1, 1)

\* char::encode_utf8
encode_utf8(c) ==
    IF c < 128 THEN <<c>>
    ELSE IF c < 2048 THEN <<192 + (c \div 64), 128 + (c % 64)>>
    ELSE IF c < 65536
    THEN <<224 + (c \div 4096), 128 + ((c \div 64) % 64), 128 + (c % 64)>>
    ELSE <<240 + (c \div 262144), 128 + ((c \div 4096) % 64),
           128 + ((c \div 64) % 64), 128 + (c % 64)>>

RECURSIVE StrBytes(_)
StrBytes(chars) ==
    IF chars = <<>> THEN <<>> ELSE encode_utf8(Head(chars)) \o StrBytes(Tail(chars))

string_push_str(s, v, w, bytes) == extend_from_slice(s, U8, v, w, bytes)

string_push(s, v, w, c) == string_push_str(s, v, w, encode_utf8(c))

----------------------------------------------------------------------------
(* The Vec / String state machine.                                         *)

\* u8, u16, ...
ElemTypes == { Layout(a, a) : a \in Aligns }

AlignedBase(align) == RegionBase + AlignOffset(RegionBase, align)

\* InlineStorage<[T; n]>, SlotStorage over buffers at an aligned and at an
\* odd address, and Global
VecStorages(elem) ==
    { InlineStorage(AlignedBase(elem.align), n * elem.size, elem.align)
      : n \in 0..MaxInlineElems }
    \cup { SlotStorage(RegionBase + d, len) : d \in {0, 1}, len \in 0..MaxSlotLen }
    \cup { Global }

VecConfigs ==
    UNION { { [spec |-> "Vec", storage |-> s, elem |-> e, string |-> FALSE]
              : s \in VecStorages(e) } : e \in ElemTypes }
    \cup { [spec |-> "Vec", storage |-> s, elem |-> U8, string |-> TRUE]
           : s \in VecStorages(U8) }

\* 'A', U+00E9, U+20AC: one, two and three bytes of UTF-8
Chars == {65, 233, 8364}
Strs == { <<>>, <<65>>, <<233>>, <<65, 66>>, <<8364>> }
Slices == { <<>>, <<1>>, <<2, 1>> }
Extras == (0..MaxExtra) \cup {UsizeMax}

\* no Rc in this run
NoRc == [alloc |-> "none"]

\* no allocation held.  `data` is what the user wrote to it, `first` the
\* layout it was allocated with, `path` the calls it went through
NoBlk ==
    [live |-> FALSE, handle |-> 0, size |-> 0, align |-> 1, usable |-> 0,
     data |-> <<>>, first |-> [size |-> 0, align |-> 1], path |-> <<>>]

\* no owner other than a Vec
NoOwn ==
    [kind |-> "none", handle |-> 0, head |-> 0, start |-> 0, length |-> 0, capacity |-> 0,
     panicked |-> FALSE]

\* nothing made, moved out, destroyed or deallocated yet
NoHist == [made |-> 0, taken |-> <<>>, destroyed |-> <<>>, deallocs |-> 0]

NoOp ==
    [op |-> "none", a |-> 0, b |-> 0, slice |-> <<>>, ok |-> TRUE, value |-> 0,
     alloc_error |-> FALSE, calls |-> <<>>, handle |-> 0, size |-> 0, n |-> 0]

VecInit ==
    /\ cfg \in VecConfigs
    /\ mem = [a \in Addrs |-> Uninit]
    /\ heap = {}
    /\ vec = NoVec
    /\ ub = FALSE
    /\ last = NoOp
    /\ rc = NoRc
    /\ blk = NoBlk
    /\ own = NoOwn
    /\ hist = NoHist

\* the step of an operation with outcome `out`
Step(op, a, b, slice, out) ==
    /\ vec' = out.v
    /\ mem' = out.w.mem
    /\ heap' = out.w.heap
    /\ ub' = out.w.ub
    /\ last' = [op |-> op, a |-> a, b |-> b, slice |-> slice, ok |-> out.ok,
                value |-> out.value, alloc_error |-> out.alloc_error,
                calls |-> out.w.calls, handle |-> 0, size |-> 0, n |-> 0]
    /\ UNCHANGED <<cfg, rc, blk, own, hist>>

Usable == cfg.spec = "Vec" /\ vec.live /\ ~ub
IsVec == Usable /\ ~cfg.string
IsString == Usable /\ cfg.string
W == World(mem, heap)

VecNewIn ==
    /\ cfg.spec = "Vec" /\ ~vec.live /\ ~ub
    /\ \E out \in new_in(cfg.storage, cfg.elem, W) :
          Step("new_in", 0, 0, <<>>, out)

VecWithCapacityIn ==
    /\ cfg.spec = "Vec" /\ ~vec.live /\ ~ub
    /\ \E capacity \in Extras \ {0} :
       \E out \in with_capacity_in(cfg.storage, cfg.elem, W, capacity) :
          Step("with_capacity_in", capacity, 0, <<>>, out)

VecReserve ==
    /\ Usable
    /\ \E k \in Extras : \E out \in reserve(cfg.storage, cfg.elem, vec, W, k) :
          Step("reserve", k, 0, <<>>, out)

VecReserveExact ==
    /\ Usable
    /\ \E k \in Extras : \E out \in reserve_exact(cfg.storage, cfg.elem, vec, W, k) :
          Step("reserve_exact", k, 0, <<>>, out)

VecShrinkToFit ==
    /\ Usable
    /\ \E out \in shrink_to_fit(cfg.storage, cfg.elem, vec, W) :
          Step("shrink_to_fit", 0, 0, <<>>, out)

VecPush ==
    /\ IsVec /\ vec.length <= MaxLen
    /\ \E value \in Values : \E out \in push(cfg.storage, cfg.elem, vec, W, value) :
          Step("push", value, 0, <<>>, out)

VecInsert ==
    /\ IsVec /\ vec.length <= MaxLen
    /\ \E index \in 0..(vec.length + 1) : \E value \in Values :
       \E out \in insert(cfg.storage, cfg.elem, vec, W, index, value) :
          Step("insert", index, value, <<>>, out)

VecPop ==
    /\ IsVec
    /\ \E out \in pop(cfg.storage, cfg.elem, vec, W) :
          Step("pop", 0, 0, <<>>, out)

VecRemove ==
    /\ IsVec
    /\ \E index \in 0..vec.length : \E out \in remove(cfg.storage, cfg.elem, vec, W, index) :
          Step("remove", index, 0, <<>>, out)

VecExtendFromSlice ==
    /\ IsVec
    /\ \E values \in Slices :
          /\ vec.length + Len(values) <= MaxLen + 1
          /\ \E out \in extend_from_slice(cfg.storage, cfg.elem, vec, W, values) :
                Step("extend_from_slice", 0, 0, values, out)

StringPush ==
    /\ IsString
    /\ \E c \in Chars :
          /\ vec.length + Len(encode_utf8(c)) <= MaxLen + 1
          /\ \E out \in string_push(cfg.storage, vec, W, c) :
                Step("string_push", c, 0, encode_utf8(c), out)

StringPushStr ==
    /\ IsString
    /\ \E str \in Strs :
          /\ vec.length + Len(StrBytes(str)) <= MaxLen + 1
          /\ \E out \in string_push_str(cfg.storage, vec, W, StrBytes(str)) :
                Step("string_push_str", 0, 0, StrBytes(str), out)

VecNext ==
    \/ VecNewIn
    \/ VecWithCapacityIn
    \/ VecReserve
    \/ VecReserveExact
    \/ VecShrinkToFit
    \/ VecPush
    \/ VecInsert
    \/ VecPop
    \/ VecRemove
    \/ VecExtendFromSlice
    \/ StringPush
    \/ StringPushStr

VecSpec == VecInit /\ [][VecNext]_vars

---------------------------------------------------------------------------------------------------------------------------------------------------
(* Properties of Vec and String *)

Slice == as_slice(IF vec.live THEN vec.storage ELSE cfg.storage, cfg.elem, vec, mem)

VecTypeOK ==
    /\ vec.length \in 0..UsizeMax
    /\ vec.capacity \in 0..UsizeMax

\* C1: in every state reached through the safe operations of Vec and
\* String, over Global, InlineStorage and SlotStorage, length <= capacity.
C1_LengthWithinCapacity == vec.live => vec.length <= vec.capacity

\* the same over the backends whose allocate checks the requested size
C1_ExceptSlot ==
    (vec.live /\ cfg.storage.kind # "Slot") => vec.length <= vec.capacity

\* C2: if reserve(k) returns Ok, then afterwards capacity >= length + k.
C2_ReserveMakesRoom ==
    (last.op = "reserve" /\ last.ok) => vec.capacity >= vec.length + last.a

C2_ExceptSlot ==
    (last.op = "reserve" /\ last.ok /\ cfg.storage.kind # "Slot")
        => vec.capacity >= vec.length + last.a

\* the value a push / insert was given
GivenValue(l) == IF l.op = "push" THEN l.a ELSE l.b

\* C3: when push(v), or insert(i, v) with i <= length, fails because the
\* storage cannot provide one more slot, the error carries exactly v and the
\* allocation error, and length, capacity, handle and the element sequence
\* are as before the call.
C3_FailedPushLeavesVec ==
    [][ (last'.op \in {"push", "insert"} /\ ~last'.ok /\ last'.alloc_error)
          => /\ last'.value = GivenValue(last')
             /\ vec' = vec
             /\ as_slice(cfg.storage, cfg.elem, vec', mem') = Slice ]_vars

\* a push failed on a Vec that holds elements
C3_Witness ==
    /\ last.op = "push" /\ ~last.ok /\ last.alloc_error
    /\ vec.length > 0

C3_WitnessInsert ==
    /\ last.op = "insert" /\ ~last.ok /\ last.alloc_error
    /\ vec.length > 0 /\ last.a < vec.length

\* the element sequence after the step
SliceAfter == as_slice(IF vec'.live THEN vec'.storage ELSE cfg.storage, cfg.elem, vec', mem')

InsertAt(seq, i, v) == SubSeq(seq, 1, i) \o <<v>> \o SubSeq(seq, i + 1, Len(seq))

RemoveAt(seq, i) == SubSeq(seq, 1, i) \o SubSeq(seq, i + 2, Len(seq))

\* InlineStorage<[T; N]>
InlineRoom == cfg.storage.size \div cfg.elem.size

\* C13: on a Vec over an InlineStorage with room for exactly N elements a
\* push succeeds iff length < N before the call; a successful push appends
\* its value, a failed one carries its value and leaves the contents, so
\* the contents are the successfully pushed values in push order.
C13_InlinePush ==
    [][ (cfg.spec = "Vec" /\ cfg.storage.kind = "Inline" /\ last'.op = "push")
          => /\ last'.ok <=> vec.length < InlineRoom
             /\ last'.ok => /\ ~ub'
                            /\ SliceAfter = Append(Slice, last'.a)
             /\ ~last'.ok => /\ last'.value = last'.a
                             /\ SliceAfter = Slice ]_vars

\* N = 2: two pushes succeeded, the third failed carrying its value
C13_Witness ==
    /\ cfg.spec = "Vec" /\ cfg.storage.kind = "Inline" /\ InlineRoom = 2
    /\ last.op = "push" /\ ~last.ok /\ last.value = last.a
    /\ Slice = <<1, 2>>

\* C14: insert(index, value) with index > length fails with alloc_error
\* None and the given value, calls no storage operation and leaves the Vec
\* unchanged; alloc_error is Some only when index <= length and reserving
\* one slot failed.
C14_InsertOutOfRange ==
    [][ (cfg.spec = "Vec" /\ last'.op = "insert")
          => /\ last'.a > vec.length
                  => /\ ~last'.ok /\ ~last'.alloc_error /\ last'.value = last'.b
                     /\ last'.calls = <<>>
                     /\ vec' = vec /\ mem' = mem /\ heap' = heap /\ ~ub'
             /\ last'.alloc_error
                  => /\ ~last'.ok /\ last'.a <= vec.length
                     /\ \E r \in reserve(cfg.storage, cfg.elem, vec, W, 1) : ~r.ok ]_vars

\* an insert past the end of a Vec that holds elements was refused
C14_Witness ==
    /\ cfg.spec = "Vec" /\ last.op = "insert" /\ last.a > vec.length
    /\ ~last.ok /\ ~last.alloc_error /\ vec.length > 0

\* C15: when insert(i, v) succeeds, the new length is the old length + 1,
\* the element at i is v, the elements before i are unchanged and every
\* element formerly at j >= i is at j + 1; insert at i = length is a push.
C15_InsertShifts ==
    [][ (cfg.spec = "Vec" /\ last'.op = "insert" /\ last'.ok)
          => /\ ~ub'
             /\ last'.a <= vec.length
             /\ vec'.length = vec.length + 1
             /\ SliceAfter = InsertAt(Slice, last'.a, last'.b)
             /\ last'.a = vec.length => SliceAfter = Append(Slice, last'.b) ]_vars

\* the same over the backends whose allocate checks the requested size
C15_ExceptSlot ==
    [][ (cfg.spec = "Vec" /\ last'.op = "insert" /\ last'.ok /\ cfg.storage.kind # "Slot")
          => /\ ~ub'
             /\ vec'.length = vec.length + 1
             /\ SliceAfter = InsertAt(Slice, last'.a, last'.b) ]_vars

\* C16: pop on a non-empty Vec returns the last element, takes one off the
\* length and leaves the remaining prefix unchanged; on an empty Vec it
\* returns None and changes nothing.  A pop that follows a push returns the
\* value pushed (LIFO).
C16_PopTakesLast ==
    [][ (cfg.spec = "Vec" /\ last'.op = "pop")
          => /\ last'.calls = <<>> /\ ~ub' /\ heap' = heap
             /\ vec.length = 0 => (~last'.ok /\ vec' = vec /\ mem' = mem)
             /\ vec.length > 0
                  => /\ last'.ok /\ last'.value = Slice[vec.length]
                     /\ vec'.length = vec.length - 1
                     /\ SliceAfter = SubSeq(Slice, 1, vec.length - 1)
             /\ (last.op = "push" /\ last.ok) => (last'.ok /\ last'.value = last.a) ]_vars

\* a pop took the last of several elements
C16_Witness ==
    /\ cfg.spec = "Vec" /\ last.op = "pop" /\ last.ok
    /\ vec.length > 0 /\ last.value \in Values /\ ~ub

C16_WitnessEmpty ==
    /\ cfg.spec = "Vec" /\ last.op = "pop" /\ ~last.ok /\ vec.live /\ vec.length = 0

\* C17: remove(index) returns None and leaves the Vec unchanged when index
\* >= length; otherwise it returns the element at index, takes one off the
\* length, leaves the elements before index and moves those after it one
\* position left, in order.
C17_RemoveShifts ==
    [][ (cfg.spec = "Vec" /\ last'.op = "remove")
          => /\ last'.calls = <<>> /\ ~ub' /\ heap' = heap
             /\ last'.a >= vec.length => (~last'.ok /\ vec' = vec /\ mem' = mem)
             /\ last'.a < vec.length
                  => /\ last'.ok /\ last'.value = Slice[last'.a + 1]
                     /\ vec'.length = vec.length - 1
                     /\ SliceAfter = RemoveAt(Slice, last'.a) ]_vars

\* a remove from the middle: elements before and after it remain
C17_Witness ==
    /\ cfg.spec = "Vec" /\ last.op = "remove" /\ last.ok
    /\ last.a > 0 /\ last.a < vec.length /\ ~ub

C17_WitnessOutOfRange ==
    /\ cfg.spec = "Vec" /\ last.op = "remove" /\ ~last.ok /\ vec.length > 0

\* C18: on any backend, after n successful pushes followed by n pops the
\* Vec is empty and its capacity is unchanged: each successful push adds
\* one element in the allocation, each pop takes one off, and pop and
\* remove never change capacity or handle.
C18_PushPopKeepsCapacity ==
    [][ cfg.spec = "Vec"
          => /\ (last'.op = "push" /\ last'.ok)
                  => (~ub' /\ vec'.length = vec.length + 1)
             /\ last'.op \in {"pop", "remove"}
                  => /\ vec'.capacity = vec.capacity /\ vec'.handle = vec.handle
                     /\ last'.ok => vec'.length = vec.length - 1 ]_vars

\* the same over the backends whose allocate checks the requested size
C18_ExceptSlot ==
    [][ (cfg.spec = "Vec" /\ cfg.storage.kind # "Slot")
          => /\ (last'.op = "push" /\ last'.ok)
                  => (~ub' /\ vec'.length = vec.length + 1)
             /\ last'.op \in {"pop", "remove"}
                  => /\ vec'.capacity = vec.capacity /\ vec'.handle = vec.handle
                     /\ last'.ok => vec'.length = vec.length - 1 ]_vars

\* C19: on every backend, if with_capacity_in(n, storage) returns Ok, the
\* container has length 0 and capacity >= n.
C19_WithCapacityHasRoom ==
    (cfg.spec = "Vec" /\ last.op = "with_capacity_in" /\ last.ok)
        => (vec.length = 0 /\ vec.capacity >= last.a)

C19_ExceptSlot ==
    (cfg.spec = "Vec" /\ last.op = "with_capacity_in" /\ last.ok /\ cfg.storage.kind # "Slot")
        => (vec.length = 0 /\ vec.capacity >= last.a)

Appends == {"extend_from_slice", "string_push", "string_push_str"}

\* C20: push_str, String::push and extend_from_slice are all-or-nothing: on
\* success the contents are the previous contents followed by exactly the
\* appended bytes / elements, in the allocation; on failure the allocation
\* error is returned and length and contents are unchanged.
C20_AppendAllOrNothing ==
    [][ (cfg.spec = "Vec" /\ last'.op \in Appends)
          => /\ last'.ok => /\ ~ub'
                            /\ vec'.length = vec.length + Len(last'.slice)
                            /\ SliceAfter = Slice \o last'.slice
             /\ ~last'.ok => /\ last'.alloc_error
                             /\ vec' = vec
                             /\ SliceAfter = Slice ]_vars

C20_ExceptSlot ==
    [][ (cfg.spec = "Vec" /\ last'.op \in Appends /\ cfg.storage.kind # "Slot")
          => /\ last'.ok => /\ ~ub'
                            /\ vec'.length = vec.length + Len(last'.slice)
                            /\ SliceAfter = Slice \o last'.slice
             /\ ~last'.ok => /\ last'.alloc_error
                             /\ vec' = vec
                             /\ SliceAfter = Slice ]_vars

----------------------------------------------------------------------------
(* Box<T, S> and Rc<T, S>.  An Rc allocation holds RcInner<T> = { strong:  *)
(* Cell<usize>, data: T }; every Rc instance holds the handle and its own  *)
(* copy of the storage.                                                    *)

WordBytes == (UsizeBits + 7) \div 8      \* size_of::<usize>() and its alignment

RoundUp(n, align) == n + AlignOffset(n, align)

\* offset of `data` in RcInner<T>, and Layout::new::<RcInner<T>>()
DataOffset(T) == RoundUp(WordBytes, T.align)
RcInnerLayout(T) ==
    Layout(RoundUp(DataOffset(T) + T.size, Max(WordBytes, T.align)), Max(WordBytes, T.align))

\* the bytes of RcInner { strong, data: value }; padding is uninitialised
RcInnerBytes(T, strong, value) ==
    LET head == Encode(strong, WordBytes) \o [i \in 1..(DataOffset(T) - WordBytes) |-> Uninit]
        body == head \o Encode(value, T.size)
    IN body \o [i \in 1..(RcInnerLayout(T).size - Len(body)) |-> Uninit]

\* Box::new_with_in followed by Box::into_raw_parts: allocate, write the
\* value, hand out the handle
box_new_in(s, w, layout, bytes) ==
    { IF r.ok
      THEN [ok |-> TRUE, handle |-> r.handle,
            w |-> [r.w EXCEPT !.mem = MemWrite(@, Resolve(s, r.handle), bytes),
                              !.ub = @ \/ layout.size > Extent(s, r.w, r.handle)]]
      ELSE [ok |-> FALSE, handle |-> 0, w |-> r.w]
      : r \in Allocate(s, w, layout) }

\* a copy that is a storage of its own (as InlineStorage::clone makes)
make_fresh_copy(s) == [s EXCEPT !.base = @ + MaxAlign]

\* ShareableStorageWrapper::make_shared_copy, <&T>::make_shared_copy: the
\* copy refers to the same storage
make_shared_copy(s) == s

RcIds == 1..MaxRcs

NoInst == [live |-> FALSE, handle |-> 0, storage |-> Global]

RcOutcome(ok, r, w, value) == [ok |-> ok, r |-> r, w |-> w, value |-> value]

\* Rc::inner(rc).strong.get()
Strong(inst, m) == Decode(MemRead(m, Resolve(inst.storage, inst.handle), WordBytes))

SetStrong(inst, m, n) == MemWrite(m, Resolve(inst.storage, inst.handle), Encode(n, WordBytes))

\* *Rc::as_ptr(rc)
Data(inst, T, m) ==
    Decode(MemRead(m, Resolve(inst.storage, inst.handle) + DataOffset(T), T.size))

\* using an Rc whose allocation has been deallocated
Dangling_use(r, w) == RcOutcome(FALSE, r, [w EXCEPT !.ub = TRUE], 0)

Panic(r, w) == RcOutcome(FALSE, [r EXCEPT !.panicked = TRUE], w, 0)

rc_new_in(s, T, r, w, id, value) ==
    { IF b.ok
      THEN RcOutcome(TRUE,
                     [r EXCEPT !.alloc = "live",
                               !.inst[id] = [live |-> TRUE, handle |-> b.handle,
                                             storage |-> s]],
                     b.w, 0)
      ELSE RcOutcome(FALSE, r, b.w, 0)
      : b \in box_new_in(s, w, RcInnerLayout(T), RcInnerBytes(T, 0, value)) }

rc_clone(T, debug, r, w, id, new_id) ==
    LET inst == r.inst[id]
        strong == Strong(inst, w.mem)
    IN
    IF r.alloc = "freed" THEN {Dangling_use(r, w)}
    ELSE IF debug /\ strong = UsizeMax THEN {Panic(r, w)}
    ELSE {RcOutcome(TRUE,
                    [r EXCEPT !.inst[new_id] =
                                 [live |-> TRUE, handle |-> inst.handle,
                                  storage |-> make_shared_copy(inst.storage)]],
                    [w EXCEPT !.mem = SetStrong(inst, @, (strong + 1) % (UsizeMax + 1))],
                    0)}

\* Drop for Rc
rc_drop(T, debug, r, w, id) ==
    LET inst == r.inst[id]
        strong == Strong(inst, w.mem)
        gone == [r EXCEPT !.inst[id] = NoInst]
        left == (strong - 1) % (UsizeMax + 1)
        w1 == [w EXCEPT !.mem = SetStrong(inst, @, left)]
    IN
    IF r.alloc = "freed" THEN {Dangling_use(r, w)}
    ELSE IF debug /\ strong = 0 THEN {Panic(gone, w)}
    ELSE IF left = 0
    THEN LET layout == T IN
         {RcOutcome(TRUE,
                    [gone EXCEPT !.dropped = @ + 1, !.deallocs = @ + 1,
                                 !.dealloc_size = layout.size, !.alloc = "freed"],
                    Deallocate(inst.storage, w1, layout, inst.handle), 0)}
    ELSE {RcOutcome(TRUE, gone, w1, 0)}

\* Rc::into_inner: ok with the value for Some(value), not ok for None; on
\* the None path the Rc that was passed in goes out of scope
rc_into_inner(T, debug, r, w, id) ==
    LET inst == r.inst[id]
        strong == Strong(inst, w.mem)
    IN
    IF r.alloc = "freed" THEN {Dangling_use(r, w)}
    ELSE IF strong # 1
    THEN { RcOutcome(FALSE, o.r, o.w, 0) : o \in rc_drop(T, debug, r, w, id) }
    ELSE LET value == Data(inst, T, w.mem)
             layout == T
         IN {RcOutcome(TRUE,
                       [r EXCEPT !.inst[id] = NoInst, !.moved = TRUE, !.deallocs = @ + 1,
                                 !.dealloc_size = layout.size, !.alloc = "freed"],
                       Deallocate(inst.storage, w, layout, inst.handle), value)}

\* Deref for Rc
rc_deref(T, r, w, id) ==
    IF r.alloc = "freed" THEN {Dangling_use(r, w)}
    ELSE {RcOutcome(TRUE, r, w, Data(r.inst[id], T, w.mem))}

----------------------------------------------------------------------------
(* The Rc state machine: one allocation, up to MaxRcs instances.           *)

\* storages with room for RcInner<T> (shared through ShareableStorageWrapper
\* or a reference), and an InlineStorage<T> that is too small for it
RcStorages(T) ==
    { Global,
      InlineStorage(AlignedBase(RcInnerLayout(T).align), RcInnerLayout(T).size,
                    RcInnerLayout(T).align),
      InlineStorage(AlignedBase(T.align), T.size, T.align),
      SlotStorage(RegionBase + 1, RcInnerLayout(T).size + MaxAlign) }

RcConfigs ==
    UNION { { [spec |-> "Rc", storage |-> s, elem |-> T, debug |-> d]
              : s \in RcStorages(T), d \in BOOLEAN } : T \in ElemTypes }

RcInit ==
    /\ cfg \in RcConfigs
    /\ mem = [a \in Addrs |-> Uninit]
    /\ heap = {}
    /\ vec = NoVec
    /\ ub = FALSE
    /\ last = NoOp
    /\ blk = NoBlk
    /\ own = NoOwn
    /\ hist = NoHist
    /\ rc = [alloc |-> "none", inst |-> [i \in RcIds |-> NoInst], dropped |-> 0,
             moved |-> FALSE, deallocs |-> 0, dealloc_size |-> 0, panicked |-> FALSE]

RcStep(op, a, b, out) ==
    /\ rc' = out.r
    /\ mem' = out.w.mem
    /\ heap' = out.w.heap
    /\ ub' = out.w.ub
    /\ last' = [op |-> op, a |-> a, b |-> b, slice |-> <<>>, ok |-> out.ok,
                value |-> out.value, alloc_error |-> FALSE, calls |-> out.w.calls,
                handle |-> 0, size |-> 0, n |-> 0]
    /\ UNCHANGED <<cfg, vec, blk, own, hist>>

RcRunning == cfg.spec = "Rc" /\ ~ub /\ ~rc.panicked
Live == { i \in RcIds : rc.inst[i].live }

RcNewIn ==
    /\ RcRunning /\ rc.alloc = "none"
    /\ \E value \in Values :
       \E out \in rc_new_in(cfg.storage, cfg.elem, rc, W, 1, value) :
          RcStep("new_in", 1, value, out)

RcClone ==
    /\ RcRunning
    /\ \E id \in Live : \E new_id \in RcIds \ Live :
       \E out \in rc_clone(cfg.elem, cfg.debug, rc, W, id, new_id) :
          RcStep("clone", id, new_id, out)

RcDrop ==
    /\ RcRunning
    /\ \E id \in Live : \E out \in rc_drop(cfg.elem, cfg.debug, rc, W, id) :
          RcStep("drop", id, 0, out)

RcIntoInner ==
    /\ RcRunning
    /\ \E id \in Live : \E out \in rc_into_inner(cfg.elem, cfg.debug, rc, W, id) :
          RcStep("into_inner", id, 0, out)

RcDeref ==
    /\ RcRunning
    /\ \E id \in Live : \E out \in rc_deref(cfg.elem, rc, W, id) :
          RcStep("deref", id, 0, out)

RcNext ==
    \/ RcNewIn
    \/ RcClone
    \/ RcDrop
    \/ RcIntoInner
    \/ RcDeref

RcSpec == RcInit /\ [][RcNext]_vars

----------------------------------------------------------------------------
(* Properties of Rc *)

\* the strong count as the live instances see it (they share one RcInner)
StrongOf(r, m) ==
    LET ids == { i \in RcIds : r.inst[i].live } IN
    IF ids = {} THEN 0 ELSE Strong(r.inst[CHOOSE i \in ids : TRUE], m)

\* C4: for an Rc allocation with at least one live Rc instance, also right
\* after new_in, the strong count is > 0; each drop decrements it by one.
C4_StrongPositive ==
    (cfg.spec = "Rc" /\ rc.alloc = "live" /\ Live # {}) => StrongOf(rc, mem) > 0

\* C5: the value is destroyed and the allocation deallocated exactly once,
\* at the drop of the last Rc instance and never while another instance
\* exists.
C5_DestroyedAtLastDrop ==
    cfg.spec = "Rc" =>
        /\ rc.dropped <= 1
        /\ rc.dropped > 0 => Live = {}
        /\ (last.op = "drop" /\ Live = {}) => (rc.dropped = 1 /\ rc.deallocs = 1)

\* C6: into_inner extracts the value and deallocates only when the Rc it is
\* given is the only instance: no other instance is alive afterwards.
C6_IntoInnerOnlyWhenUnique ==
    (cfg.spec = "Rc" /\ last.op = "into_inner" /\ last.ok) => Live = {}

\* a step of into_inner on instance last'.a that found the strong count # 1
IntoInnerRefused ==
    /\ cfg.spec = "Rc" /\ last'.op = "into_inner" /\ ~ub'
    /\ rc.alloc = "live" /\ rc.inst[last'.a].live
    /\ Strong(rc.inst[last'.a], mem) # 1

\* C7, as claimed: when into_inner is called while the strong count is not
\* 1, the Rc is handed back unchanged, the strong count is the same after
\* the call, and the value is neither extracted nor destroyed.
C7_IntoInnerNoSideEffects ==
    [][ IntoInnerRefused
          => /\ rc'.inst = rc.inst
             /\ Strong(rc.inst[last'.a], mem') = Strong(rc.inst[last'.a], mem)
             /\ rc'.moved = rc.moved /\ rc'.dropped = rc.dropped ]_vars

\* C7, what into_inner does when the strong count is not 1: the value is
\* neither extracted nor destroyed and nothing is deallocated, but the Rc
\* that was passed in is not handed back: it is dropped. With a count above
\* 0, and with a count of 0 in a release build, the call returns None with
\* the count one less (0 wraps); with a count of 0 in a debug build Drop's
\* assertion panics and the count is as it was.
C7_IntoInnerRefusedDropsRc ==
    [][ IntoInnerRefused
          => /\ ~last'.ok /\ last'.calls = <<>>
             /\ rc'.panicked = (cfg.debug /\ Strong(rc.inst[last'.a], mem) = 0)
             /\ rc'.panicked => mem' = mem
             /\ rc'.moved = rc.moved /\ rc'.dropped = rc.dropped
             /\ rc'.deallocs = rc.deallocs /\ rc'.alloc = rc.alloc
             /\ heap' = heap
             /\ Data(rc.inst[last'.a], cfg.elem, mem') = Data(rc.inst[last'.a], cfg.elem, mem)
             /\ ~rc'.inst[last'.a].live
             /\ \/ rc'.panicked
                \/ Strong(rc.inst[last'.a], mem')
                     = (Strong(rc.inst[last'.a], mem) - 1) % (UsizeMax + 1) ]_vars

\* into_inner returned None while other instances hold the value
C7_Witness ==
    /\ cfg.spec = "Rc" /\ last.op = "into_inner" /\ ~last.ok
    /\ ~ub /\ ~rc.panicked /\ rc.alloc = "live" /\ Live # {}
    /\ StrongOf(rc, mem) > 0

\* a clone step of instance last'.a into last'.b
Cloned ==
    /\ cfg.spec = "Rc" /\ last'.op = "clone" /\ last'.ok /\ ~ub'

\* C8: clone increases the strong count by exactly one and returns an Rc
\* with the same handle over a shared copy of the storage: both resolve to
\* the same allocation and see the same value; clone allocates nothing.
C8_CloneSharesAllocation ==
    [][ Cloned
          => LET old == rc'.inst[last'.a]
                 new == rc'.inst[last'.b]
             IN /\ old = rc.inst[last'.a]
                /\ new.live /\ ~rc.inst[last'.b].live
                /\ Strong(old, mem') = Strong(old, mem) + 1
                /\ new.handle = old.handle
                /\ Resolve(new.storage, new.handle) = Resolve(old.storage, old.handle)
                /\ Data(new, cfg.elem, mem') = Data(old, cfg.elem, mem)
                /\ last'.calls = <<>> /\ heap' = heap ]_vars

\* a clone was made and the value is read through it
C8_Witness ==
    /\ cfg.spec = "Rc" /\ last.op = "clone" /\ last.ok /\ ~ub
    /\ rc.inst[last.b].live /\ rc.inst[last.a].live
    /\ Data(rc.inst[last.b], cfg.elem, mem) \in Values

----------------------------------------------------------------------------
(* A direct user of a Storage: it holds at most one allocation, `blk`.     *)

AllLayouts == { Layout(n, a) : n \in 0..MaxElems, a \in Aligns }

\* the longest course a user takes here: allocate, write, grow, shrink
RoundTrip == <<"allocate", "write", "grow", "shrink">>
MaxCalls == Len(RoundTrip)

\* InlineStorage<T> for types T of every size and alignment, SlotStorage
\* over buffers at every alignment of the base, and Global
AllStorages ==
    { InlineStorage(AlignedBase(a), k * a, a) : k \in 0..MaxElems, a \in Aligns }
    \cup { SlotStorage(RegionBase + d, len) : d \in 0..(MaxAlign - 1), len \in 0..MaxSlotLen }
    \cup { Global }

StorageInit ==
    /\ cfg \in { [spec |-> "Storage", storage |-> s] : s \in AllStorages }
    /\ mem = [a \in Addrs |-> Uninit]
    /\ heap = {}
    /\ vec = NoVec
    /\ ub = FALSE
    /\ last = NoOp
    /\ rc = NoRc
    /\ blk = NoBlk
    /\ own = NoOwn
    /\ hist = NoHist

StorageStep(op, layout, r, b) ==
    /\ blk' = b
    /\ mem' = r.w.mem
    /\ heap' = r.w.heap
    /\ ub' = r.w.ub
    /\ last' = [op |-> op, a |-> layout.size, b |-> layout.align, slice |-> <<>>,
                ok |-> r.ok, value |-> 0, alloc_error |-> ~r.ok, calls |-> r.w.calls,
                handle |-> r.handle, size |-> r.size, n |-> last.n + 1]
    /\ UNCHANGED <<cfg, vec, rc, own, hist>>

\* Global is a MultipleStorage: its user here frees before it allocates
\* again.  On the others a new allocate replaces the allocation held.
StAllocate ==
    /\ cfg.spec = "Storage" /\ ~ub
    /\ last.n < MaxCalls
    /\ cfg.storage.kind = "Global" => ~blk.live
    /\ \E layout \in AllLayouts : \E r \in Allocate(cfg.storage, W, layout) :
          StorageStep("allocate", layout, r,
                      IF r.ok
                      THEN [live |-> TRUE, handle |-> r.handle, size |-> layout.size,
                            align |-> layout.align, usable |-> r.size,
                            data |-> <<>>, first |-> layout, path |-> <<"allocate">>]
                      ELSE blk)

\* the bytes a user writes: two patterns that tell the positions apart
Patterns(n) == { [i \in 1..n |-> ((i + k) % 2) + 1] : k \in {0, 1} }

\* the user fills the layout.size() bytes it asked for, once
StWrite ==
    /\ cfg.spec = "Storage" /\ ~ub /\ blk.live /\ blk.size > 0 /\ blk.data = <<>>
    /\ last.n < MaxCalls

    /\ \E bytes \in Patterns(blk.size) :
          StorageStep("write", Layout(blk.size, blk.align),
                      AllocOk(blk.handle, blk.usable,
                              [W EXCEPT !.mem = MemWrite(@, Resolve(cfg.storage, blk.handle), bytes),
                                        !.ub = blk.size > Extent(cfg.storage, W, blk.handle)]),
                      [blk EXCEPT !.data = bytes, !.path = Append(@, "write")])

\* the allocation after a grow or shrink that returned r
Moved(op, layout, r) ==
    IF r.ok
    THEN [blk EXCEPT !.handle = r.handle, !.size = layout.size, !.align = layout.align,
                     !.usable = r.size, !.path = Append(@, op),
                     !.data = SubSeq(@, 1, Min(Len(@), layout.size))]
    ELSE blk

StGrow ==
    /\ cfg.spec = "Storage" /\ ~ub /\ blk.live
    /\ last.n < MaxCalls
    /\ \E layout \in { l \in AllLayouts : l.size >= blk.size } :
       \E r \in Grow(cfg.storage, W, Layout(blk.size, blk.align), layout, blk.handle) :
          StorageStep("grow", layout, r, Moved("grow", layout, r))

StShrink ==
    /\ cfg.spec = "Storage" /\ ~ub /\ blk.live
    /\ last.n < MaxCalls
    /\ \E layout \in { l \in AllLayouts : l.size <= blk.size } :
       \E r \in Shrink(cfg.storage, W, Layout(blk.size, blk.align), layout, blk.handle) :
          StorageStep("shrink", layout, r, Moved("shrink", layout, r))

StDeallocate ==
    /\ cfg.spec = "Storage" /\ ~ub /\ blk.live
    /\ last.n < MaxCalls
    /\ LET layout == Layout(blk.size, blk.align) IN
       StorageStep("deallocate", layout,
                   AllocOk(blk.handle, 0, Deallocate(cfg.storage, W, layout, blk.handle)),
                   NoBlk)

StorageNext ==
    \/ StAllocate
    \/ StWrite
    \/ StGrow
    \/ StShrink
    \/ StDeallocate

StorageSpec == StorageInit /\ [][StorageNext]_vars

----------------------------------------------------------------------------
(* Properties of the storages *)

\* the bytes read through the handle of the allocation held
Content(n) == MemRead(mem, Resolve(cfg.storage, blk.handle), n)

\* C11: on every backend, when grow or shrink returns an error the original
\* allocation has not been freed, moved or modified: the handle held still
\* resolves to the same address and the same bytes, and the heap is as it
\* was.
C11_FailedGrowShrinkKeepsAllocation ==
    [][ (cfg.spec = "Storage" /\ last'.op \in {"grow", "shrink"} /\ ~last'.ok /\ ~ub)
          => /\ blk' = blk /\ heap' = heap /\ mem' = mem /\ ~ub'
             /\ Resolve(cfg.storage, blk'.handle) = Resolve(cfg.storage, blk.handle)
             /\ MemRead(mem', Resolve(cfg.storage, blk'.handle), blk.size)
                  = MemRead(mem, Resolve(cfg.storage, blk.handle), blk.size) ]_vars

\* the heap block behind the allocation held has the layout the user holds
LayoutKept ==
    (cfg.storage.kind = "Global" /\ blk.live /\ blk.size > 0)
        => Block(blk.handle, blk.size, blk.align) \in heap

\* C11 holds of the calls made on an allocation whose heap block has the
\* layout the user holds (always so on InlineStorage and SlotStorage)
C11_WhenLayoutKept ==
    [][ (cfg.spec = "Storage" /\ last'.op \in {"grow", "shrink"} /\ ~last'.ok /\ ~ub
         /\ LayoutKept)
          => /\ blk' = blk /\ heap' = heap /\ mem' = mem /\ ~ub' ]_vars

\* a grow of a written allocation failed, on each backend
C11_Witness ==
    /\ cfg.spec = "Storage" /\ cfg.storage.kind = "Global"
    /\ last.op = "grow" /\ ~last.ok /\ blk.live /\ blk.data # <<>>
    /\ Content(blk.size) = blk.data

C11_WitnessInline ==
    /\ cfg.spec = "Storage" /\ cfg.storage.kind = "Inline"
    /\ last.op = "grow" /\ ~last.ok /\ blk.live /\ blk.data # <<>>
    /\ Content(blk.size) = blk.data

C11_WitnessSlot ==
    /\ cfg.spec = "Storage" /\ cfg.storage.kind = "Slot"
    /\ last.op \in {"grow", "shrink"} /\ ~last.ok /\ blk.live

\* C12: on Global, for layouts A and B with B.size >= A.size and any
\* alignments: after allocate(A), writing A.size bytes, a successful
\* grow(A, B) and a successful shrink(B, A), the first A.size bytes read
\* through the current handle are the bytes written, at every step.
C12_GrowShrinkRoundTrip ==
    (/\ cfg.spec = "Storage" /\ cfg.storage.kind = "Global" /\ blk.live
     /\ Len(blk.path) >= 2 /\ blk.path = SubSeq(RoundTrip, 1, Len(blk.path))
     /\ Len(blk.path) = 4 => Layout(blk.size, blk.align) = blk.first)
        => /\ ~ub
           /\ Content(blk.first.size) = blk.data


\* the layout the last call asked for


Asked == Layout(last.a, last.b)

\* C9: SlotStorage::allocate fails whenever no aligned offset exists within
\* the buffer or the length remaining after the aligned offset is smaller
\* than layout.size(); when it succeeds, the usable size is >= layout.size()
\* and offset + layout.size() <= buffer length.
C9_SlotAllocateFits ==
    (cfg.spec = "Storage" /\ cfg.storage.kind = "Slot" /\ last.op = "allocate")
        => LET offset == AlignOffset(cfg.storage.base, Asked.align)
               fits == offset <= cfg.storage.size
                       /\ cfg.storage.size - offset >= Asked.size
           IN /\ ~fits => ~last.ok
              /\ last.ok => /\ last.size >= Asked.size
                            /\ last.handle + Asked.size <= cfg.storage.size

\* C10: InlineStorage<T>::allocate(layout) succeeds iff layout.size() <= N
\* and layout.align() <= A; on success it returns the one handle and usable
\* size N, and the handle resolves to the storage's own region, at an
\* address aligned as requested.
C10_InlineAllocate ==
    (cfg.spec = "Storage" /\ cfg.storage.kind = "Inline" /\ last.op = "allocate")
        => /\ last.ok <=> (Asked.size <= cfg.storage.size /\ Asked.align <= cfg.storage.align)
           /\ last.ok => /\ last.handle = 0
                         /\ last.size = cfg.storage.size
                         /\ Resolve(cfg.storage, last.handle) = cfg.storage.base
                         /\ Resolve(cfg.storage, last.handle) % Asked.align = 0
                         /\ blk.live /\ blk.handle = 0 /\ blk.size = Asked.size
                         /\ blk.align = Asked.align /\ blk.usable = cfg.storage.size

\* an allocation smaller than the region succeeded; one that asks for a
\* larger alignment than the region's failed
C10_Witness ==
    /\ cfg.spec = "Storage" /\ cfg.storage.kind = "Inline" /\ last.op = "allocate"
    /\ last.ok /\ Asked.size > 0 /\ Asked.size < cfg.storage.size
    /\ Asked.align < cfg.storage.align

C10_WitnessRefused ==
    /\ cfg.spec = "Storage" /\ cfg.storage.kind = "Inline" /\ last.op = "allocate"
    /\ ~last.ok /\ Asked.size <= cfg.storage.size /\ Asked.align > cfg.storage.align

----------------------------------------------------------------------------
(* Values that own something: moving one out of its allocation (ptr::read) *)
(* and destroying it in place (drop_in_place) are events of the running    *)
(* operation, logged in order with the storage calls.                      *)

\* an access to the `size` bytes at `addr` of the allocation at `handle`
Touch(s, w, op, handle, addr, size) ==
    LET offset == addr - Resolve(s, handle) IN
    [w EXCEPT !.calls = Append(@, [op |-> op, addr |-> addr,
                                   value |-> Decode(MemRead(w.mem, addr, size))]),
              !.ub = @ \/ (size > 0 /\ offset + size > Extent(s, w, handle))]

\* NonNull::read: the value is moved out, its bytes stay where they are
ptr_read(s, w, handle, addr, size) == Touch(s, w, "read", handle, addr, size)

\* drop_in_place of one value: its destructor runs
drop_in_place(s, w, handle, addr, size) == Touch(s, w, "drop_in_place", handle, addr, size)

\* a value that is not in the buffer goes out of scope: an argument, or
\* what a closure owns; its destructor runs, at no address of the buffer
drop_value(w, value) ==
    [w EXCEPT !.calls = Append(@, [op |-> "drop_in_place", addr |-> -1, value |-> value])]

\* drop_in_place of the slice of n elements that starts at element `index`
RECURSIVE drop_slice_in_place(_, _, _, _, _, _)
drop_slice_in_place(s, elem, w, handle, index, n) ==
    IF n = 0 THEN w
    ELSE drop_slice_in_place(
             s, elem,
             drop_in_place(s, w, handle, Resolve(s, handle) + index * elem.size, elem.size),
             handle, index + 1, n - 1)

\* the events `op` of a log, and the values they touched
Events(calls, op) ==
    LET Is(c) == c.op = op IN SelectSeq(calls, Is)

EventValues(calls, op) ==
    LET sel == Events(calls, op) IN [i \in 1..Len(sel) |-> sel[i].value]

\* position of the first event `op` in a log, 0 when there is none
FirstEvent(calls, op) ==
    IF \E i \in 1..Len(calls) : calls[i].op = op
    THEN CHOOSE i \in 1..Len(calls) :
             calls[i].op = op /\ \A j \in 1..(i - 1) : calls[j].op # op
    ELSE 0

\* what an operation on an owner yields: the Vec and the other owner after
\* it, the world, and the value it returns
OwnOutcome(ok, v, o, w, value) == [ok |-> ok, v |-> v, o |-> o, w |-> w, value |-> value]

----------------------------------------------------------------------------
(* Box<T, S>: b = [kind = "Box", handle, storage]: the Box owns its        *)
(* storage value; T is the layout of the value.                            *)

\* where a storage value of this size and alignment can be placed: the
\* first and the last aligned place of the address space, as far as the
\* place is the one it is in or does not overlap it
StoragePlaces(s) ==
    LET last_place == (MemSize - s.size) - ((MemSize - s.size) % s.align) IN
    { p \in {AlignedBase(s.align), last_place} :
        p = s.base \/ p + s.size <= s.base \/ s.base + s.size <= p }

\* a storage value is moved (passed or returned by value, ptr::read): an
\* InlineStorage is its buffer, so its bytes are copied to the place the
\* value is moved to, which the compiler chooses, and the place it left
\* holds nothing any more; &SlotStorage and Global carry no memory
move_storage(s, w) ==
    IF s.kind = "Inline"
    THEN { [storage |-> [s EXCEPT !.base = p],
            w |-> [w EXCEPT !.mem = MemWrite(MemFill(@, s.base, s.size, Uninit), p,
                                             MemRead(w.mem, s.base, s.size))]]
           : p \in StoragePlaces(s) }
    ELSE { [storage |-> s, w |-> w] }

\* an owner other than a Vec, or the parts of one, with the storage it holds
OwnerOf(kind, storage, handle, head, start, length, capacity) ==
    [kind |-> kind, handle |-> handle, head |-> head, start |-> start,
     length |-> length, capacity |-> capacity, panicked |-> FALSE, storage |-> storage]

\* struct Box { handle, storage, .. }
BoxOf(storage, handle) == OwnerOf("Box", storage, handle, 0, 0, 0, 0)

\* Box::from_raw_parts: the Box is the handle and the storage it is given,
\* which is moved into it
box_from_raw_parts(storage, handle, w) ==
    { OwnOutcome(TRUE, NoVec, BoxOf(m.storage, handle), m.w, 0)
      : m \in move_storage(storage, w) }

\* Box::into_raw_parts: the Box is forgotten (ManuallyDrop), its storage
\* moved out of it (ptr::read) and handed out with its handle
box_into_raw_parts(s, T, b, w) ==
    { OwnOutcome(TRUE, NoVec, [b EXCEPT !.kind = "BoxParts", !.storage = m.storage], m.w, 0)
      : m \in move_storage(s, w) }

box_as_ptr(s, b) == Resolve(s, b.handle)

box_new_with_in(s, T, w, value) ==
    UNION { IF r.ok
            THEN box_from_raw_parts(s, r.handle, r.w)
            ELSE { OwnOutcome(FALSE, NoVec, NoOwn, r.w, 0) }
            : r \in box_new_in(s, w, T, Encode(value, T.size)) }

\* Box::new_in(value, storage) is new_with_in(|| value, storage): when
\* allocate fails the closure is never called and is dropped with the value
\* it owns
box_new_in_value(s, T, w, value) ==
    { IF r.ok THEN r ELSE OwnOutcome(FALSE, NoVec, NoOwn, drop_value(r.w, value), 0)
      : r \in box_new_with_in(s, T, w, value) }

\* Deref for Box
box_deref(s, T, b, w) ==
    OwnOutcome(TRUE, NoVec, b,
               [w EXCEPT !.ub = @ \/ T.size > Extent(s, w, b.handle)],
               Decode(MemRead(w.mem, box_as_ptr(s, b), T.size)))

\* an into_inner that frees the allocation before it reads the value
box_into_inner_freeing_first(s, T, b, w) ==
    { LET storage == parts.o.storage
          w1 == Deallocate(storage, parts.w, T, parts.o.handle)
          w2 == ptr_read(storage, w1, parts.o.handle, box_as_ptr(storage, parts.o), T.size)
      IN OwnOutcome(TRUE, NoVec, NoOwn, w2,
                    Decode(MemRead(w1.mem, box_as_ptr(storage, parts.o), T.size)))
      : parts \in box_into_raw_parts(s, T, b, w) }

\* Box::into_inner: the value is read out, the Box split, and the handle
\* deallocated in the storage the split returned
box_into_inner(s, T, b, w) ==
    LET value == Decode(MemRead(w.mem, box_as_ptr(s, b), T.size))
        w1 == ptr_read(s, w, b.handle, box_as_ptr(s, b), T.size)
    IN { OwnOutcome(TRUE, NoVec, NoOwn,
                    Deallocate(parts.o.storage, parts.w, T, parts.o.handle), value)
         : parts \in box_into_raw_parts(s, T, b, w1) }

\* a drop that frees the allocation before it destroys the value
box_drop_freeing_first(s, T, b, w) ==
    LET ptr == box_as_ptr(s, b)
        w1 == Deallocate(s, w, T, b.handle)
    IN OwnOutcome(TRUE, NoVec, NoOwn, drop_in_place(s, w1, b.handle, ptr, T.size), 0)

\* Drop for Box
box_drop(s, T, b, w) ==
    LET ptr == box_as_ptr(s, b)
        layout == T
        w1 == drop_in_place(s, w, b.handle, ptr, T.size)
    IN OwnOutcome(TRUE, NoVec, NoOwn, Deallocate(s, w1, layout, b.handle), 0)

----------------------------------------------------------------------------
(* The Box state machine: one Box<T, S> per run.                           *)

BoxConfigs ==
    UNION { { [spec |-> "Box", storage |-> s, elem |-> T] : s \in VecStorages(T) }
            : T \in ElemTypes }

BoxInit ==
    /\ cfg \in BoxConfigs
    /\ mem = [a \in Addrs |-> Uninit]
    /\ heap = {}
    /\ vec = NoVec
    /\ ub = FALSE
    /\ last = NoOp
    /\ rc = NoRc
    /\ blk = NoBlk
    /\ own = NoOwn
    /\ hist = NoHist

\* the history after an operation that made `made` values, handed the
\* values `moved` to its caller and logged `calls`
Recorded(h, calls, made, moved) ==
    [made |-> h.made + made,
     taken |-> h.taken \o moved,
     destroyed |-> h.destroyed \o EventValues(calls, "drop_in_place"),
     deallocs |-> h.deallocs + Len(Events(calls, "deallocate"))]

\* the step of an operation on an owner with outcome `out`
OwnStep(op, a, b, slice, out, made, moved) ==
    /\ vec' = out.v
    /\ own' = out.o
    /\ mem' = out.w.mem
    /\ heap' = out.w.heap
    /\ ub' = out.w.ub
    /\ hist' = Recorded(hist, out.w.calls, made, moved)
    /\ last' = [op |-> op, a |-> a, b |-> b, slice |-> slice, ok |-> out.ok,
                value |-> out.value, alloc_error |-> FALSE, calls |-> out.w.calls,
                handle |-> out.o.handle, size |-> 0, n |-> 0]
    /\ UNCHANGED <<cfg, rc, blk>>

IsBox == cfg.spec = "Box" /\ ~ub /\ own.kind = "Box"

BoxNewIn ==
    /\ cfg.spec = "Box" /\ ~ub /\ own.kind = "none" /\ hist.made = 0
    /\ \E value \in Values :
       \E out \in box_new_in_value(cfg.storage, cfg.elem, W, value) :
          OwnStep("new_in", value, 0, <<>>, out, 1, <<>>)

BoxDeref ==
    /\ IsBox
    /\ OwnStep("deref", 0, 0, <<>>, box_deref(own.storage, cfg.elem, own, W), 0, <<>>)

BoxIntoRawParts ==
    /\ IsBox
    /\ \E out \in box_into_raw_parts(own.storage, cfg.elem, own, W) :
          OwnStep("into_raw_parts", 0, 0, <<>>, out, 0, <<>>)

\* the caller gives back the parts it was given
BoxFromRawParts ==
    /\ cfg.spec = "Box" /\ ~ub /\ own.kind = "BoxParts"
    /\ \E out \in box_from_raw_parts(own.storage, own.handle, W) :
          OwnStep("from_raw_parts", 0, 0, <<>>, out, 0, <<>>)

BoxIntoInner ==
    /\ IsBox
    /\ \E out \in box_into_inner(own.storage, cfg.elem, own, W) :
          OwnStep("into_inner", 0, 0, <<>>, out, 0, <<out.value>>)

BoxDrop ==
    /\ IsBox
    /\ OwnStep("drop", 0, 0, <<>>, box_drop(own.storage, cfg.elem, own, W), 0, <<>>)

BoxNext ==
    \/ BoxNewIn
    \/ BoxDeref
    \/ BoxIntoRawParts
    \/ BoxFromRawParts
    \/ BoxIntoInner
    \/ BoxDrop

BoxSpec == BoxInit /\ [][BoxNext]_vars

----------------------------------------------------------------------------
(* Properties of Box *)

\* the value a Box dereferences to
BoxValue(b, m) == Decode(MemRead(m, box_as_ptr(b.storage, b), cfg.elem.size))

\* the round trip left the Box as it was, wherever its storage now is
RoundTripKeepsBox ==
    /\ own'.handle = own.handle
    /\ last'.op = "into_raw_parts" => (own.kind = "Box" /\ own'.kind = "BoxParts")
    /\ last'.op = "from_raw_parts" => (own.kind = "BoxParts" /\ own'.kind = "Box")
    /\ BoxValue(own', mem') = BoxValue(own, mem)
    /\ last'.calls = <<>> /\ hist' = hist
    /\ heap' = heap /\ ~ub'

\* C21, for a storage that is not its own memory (&SlotStorage, Global):
\* the round trip keeps handle and value, runs no destructor, calls the
\* storage for nothing and leaves every byte of memory where it was.
C21_NothingCopiedOutsideInline ==
    [][ (cfg.spec = "Box" /\ last'.op \in {"into_raw_parts", "from_raw_parts"}
         /\ cfg.storage.kind # "Inline")
          => RoundTripKeepsBox /\ own'.storage = own.storage /\ mem' = mem ]_vars

\* C21, for InlineStorage: the round trip keeps handle and value and runs
\* no destructor and no storage call, but each of its two steps moves the
\* storage value, whose bytes are the value's: they are at the place of the
\* storage after the step, and that need not be the place before it.
C21_ValueTravelsWithInlineStorage ==
    [][ (cfg.spec = "Box" /\ last'.op \in {"into_raw_parts", "from_raw_parts"}
         /\ cfg.storage.kind = "Inline")
          => /\ RoundTripKeepsBox
             /\ own'.storage = [own.storage EXCEPT !.base = own'.storage.base]
             /\ own'.storage.base \in StoragePlaces(own.storage)
             /\ MemRead(mem', own'.storage.base, own.storage.size)
                  = MemRead(mem, own.storage.base, own.storage.size)
             /\ own'.storage.base = own.storage.base => mem' = mem ]_vars

\* a Box in an InlineStorage came back from the round trip at another
\* address than the one it was made at, its value copied there
C21_WitnessMoved ==
    /\ cfg.spec = "Box" /\ cfg.storage.kind = "Inline" /\ last.op = "from_raw_parts"
    /\ own.kind = "Box" /\ ~ub /\ own.storage.base # cfg.storage.base
    /\ BoxValue(own, mem) \in Values
    /\ MemRead(mem, cfg.storage.base, cfg.elem.size) = [i \in 1..cfg.elem.size |-> Uninit]

\* C21: from_raw_parts applied to the parts into_raw_parts returned yields
\* a Box with the same handle that dereferences to the same value; neither
\* step runs a destructor, calls the storage, or reads or writes a byte of
\* the value.
C21_BoxRawPartsRoundTrip ==
    [][ (cfg.spec = "Box" /\ last'.op \in {"into_raw_parts", "from_raw_parts"})
          => /\ own'.handle = own.handle
             /\ last'.op = "into_raw_parts" => (own.kind = "Box" /\ own'.kind = "BoxParts")
             /\ last'.op = "from_raw_parts" => (own.kind = "BoxParts" /\ own'.kind = "Box")
             /\ BoxValue(own', mem') = BoxValue(own, mem)
             /\ last'.calls = <<>> /\ hist' = hist
             /\ mem' = mem /\ heap' = heap /\ ~ub' ]_vars

\* a Box that went through the round trip and still holds its value
C21_Witness ==
    /\ cfg.spec = "Box" /\ last.op = "from_raw_parts" /\ own.kind = "Box" /\ ~ub
    /\ BoxValue(own, mem) \in Values
    /\ hist = [NoHist EXCEPT !.made = 1]

\* C22: into_inner returns the stored value and deallocates the allocation
\* exactly once, after the value has been read out; the value's destructor
\* does not run, in into_inner or afterwards: no Box is left to drop.
C22_BoxIntoInner ==
    [][ (cfg.spec = "Box" /\ last'.op = "into_inner")
          => /\ last'.ok /\ ~ub'
             /\ last'.value = BoxValue(own, mem)
             /\ Events(last'.calls, "drop_in_place") = <<>>
             /\ Len(Events(last'.calls, "deallocate")) = 1
             /\ FirstEvent(last'.calls, "read") > 0
             /\ FirstEvent(last'.calls, "read") < FirstEvent(last'.calls, "deallocate")
             /\ own'.kind = "none"
             /\ hist'.taken = <<last'.value>> /\ hist'.destroyed = <<>>
             /\ hist'.deallocs = 1 ]_vars

\* into_inner gave out the value of a Box on the heap and freed its block
C22_Witness ==
    /\ cfg.spec = "Box" /\ cfg.storage.kind = "Global" /\ last.op = "into_inner"
    /\ last.value \in Values /\ heap = {} /\ ~ub /\ hist.deallocs = 1

\* C23: dropping a Box destroys the value in place and then deallocates,
\* each exactly once, with the layout of the value; nothing touches the
\* value after the deallocation.
C23_BoxDrop ==
    [][ (cfg.spec = "Box" /\ last'.op = "drop")
          => /\ ~ub'
             /\ last'.calls =
                  << [op |-> "drop_in_place", addr |-> box_as_ptr(own.storage, own),

                      value |-> BoxValue(own, mem)],
                     [op |-> "deallocate", size |-> cfg.elem.size,
                      align |-> cfg.elem.align] >>
             /\ own'.kind = "none"
             /\ hist'.destroyed = <<BoxValue(own, mem)>> /\ hist'.taken = <<>>
             /\ hist'.deallocs = 1 ]_vars

\* a Box on the heap was dropped: its value destroyed, its block freed
C23_Witness ==
    /\ cfg.spec = "Box" /\ cfg.storage.kind = "Global" /\ last.op = "drop"
    /\ Len(hist.destroyed) = 1 /\ hist.destroyed[1] \in Values
    /\ heap = {} /\ ~ub /\ hist.deallocs = 1

----------------------------------------------------------------------------
(* The ends of a Vec<T, S>: Drop, into_raw_parts and from_raw_parts.       *)

\* Drop for Vec; Layout::array(capacity).unwrap_unchecked() has no defined
\* result when the layout does not exist
vec_drop(s, elem, v, w) ==
    LET w1 == drop_slice_in_place(s, elem, w, v.handle, 0, v.length)
        w2 == [w1 EXCEPT !.ub = @ \/ ~LayoutArrayOk(elem, v.capacity)]
    IN OwnOutcome(TRUE, NoVec, NoOwn,
                  Deallocate(s, w2, LayoutArray(elem, v.capacity), v.handle), 0)

\* a split that lets the Vec go out of scope
vec_into_raw_parts_dropping(s, elem, v, w) ==
    { OwnOutcome(TRUE, NoVec,
                 OwnerOf("VecParts", m.storage, v.handle, 0, 0, v.length, v.capacity),
                 m.w, 0)
      : m \in move_storage(s, vec_drop(s, elem, v, w).w) }

\* Vec::into_raw_parts: the Vec is forgotten (ManuallyDrop), its storage
\* moved out of it (ptr::read) and handed out with its other fields
vec_into_raw_parts(s, elem, v, w) ==
    { OwnOutcome(TRUE, NoVec,
                 OwnerOf("VecParts", m.storage, v.handle, 0, 0, v.length, v.capacity),
                 m.w, 0)
      : m \in move_storage(s, w) }

\* Vec::from_raw_parts: the Vec is the parts it is given; the storage is
\* moved into it
vec_from_raw_parts(storage, handle, length, capacity, w) ==
    { OwnOutcome(TRUE, VecOf(m.storage, handle, length, capacity), NoOwn, m.w, 0)
      : m \in move_storage(storage, w) }

----------------------------------------------------------------------------
(* VecIntoIter<T, S>: it = [kind = "VecIntoIter", handle, start, length,   *)
(* capacity, storage].  ok with the value stands for Some(value), not ok   *)
(* for None.                                                               *)

\* VecIntoIter::new: the Vec is split and the storage the split returned
\* is moved into the iterator
iter_new(s, elem, v, w) ==
    UNION { { OwnOutcome(TRUE, NoVec,
                         OwnerOf("VecIntoIter", m.storage, parts.o.handle, 0, 0,
                                 parts.o.length, parts.o.capacity),
                         m.w, 0)
              : m \in move_storage(parts.o.storage, parts.w) }
            : parts \in vec_into_raw_parts(s, elem, v, w) }

\* address of the element `index` places after `start`
IterPtr(s, elem, it, index) == Resolve(s, it.handle) + (it.start + index) * elem.size

iter_as_slice(s, elem, it, m) ==
    [i \in 1..it.length |-> Decode(MemRead(m, IterPtr(s, elem, it, i - 1), elem.size))]

\* a next that leaves start where it is
next_in_place(s, elem, it, w) ==
    IF it.length = 0 THEN OwnOutcome(FALSE, NoVec, it, w, 0)
    ELSE LET addr == IterPtr(s, elem, it, 0) IN
         OwnOutcome(TRUE, NoVec, [it EXCEPT !.length = @ - 1],
                    ptr_read(s, w, it.handle, addr, elem.size),
                    Decode(MemRead(w.mem, addr, elem.size)))

next(s, elem, it, w) ==
    IF it.length = 0 THEN OwnOutcome(FALSE, NoVec, it, w, 0)
    ELSE LET addr == IterPtr(s, elem, it, 0) IN
         OwnOutcome(TRUE, NoVec, [it EXCEPT !.start = @ + 1, !.length = @ - 1],
                    ptr_read(s, w, it.handle, addr, elem.size),
                    Decode(MemRead(w.mem, addr, elem.size)))

size_hint(it) == <<it.length, it.length>>

next_back(s, elem, it, w) ==
    IF it.length = 0 THEN OwnOutcome(FALSE, NoVec, it, w, 0)
    ELSE LET nit == [it EXCEPT !.length = @ - 1]
             addr == IterPtr(s, elem, nit, nit.length)
         IN OwnOutcome(TRUE, NoVec, nit,
                       ptr_read(s, w, it.handle, addr, elem.size),
                       Decode(MemRead(w.mem, addr, elem.size)))

\* a drop that destroys the elements from the front of the buffer on
iter_drop_from_front(s, elem, it, w) ==
    LET w1 == drop_slice_in_place(s, elem, w, it.handle, 0, it.length)
        w2 == [w1 EXCEPT !.ub = @ \/ ~LayoutArrayOk(elem, it.capacity)]
    IN OwnOutcome(TRUE, NoVec, NoOwn,
                  Deallocate(s, w2, LayoutArray(elem, it.capacity), it.handle), 0)

\* Drop for VecIntoIter
iter_drop(s, elem, it, w) ==
    LET w1 == drop_slice_in_place(s, elem, w, it.handle, it.start, it.length)
        w2 == [w1 EXCEPT !.ub = @ \/ ~LayoutArrayOk(elem, it.capacity)]
    IN OwnOutcome(TRUE, NoVec, NoOwn,
                  Deallocate(s, w2, LayoutArray(elem, it.capacity), it.handle), 0)

----------------------------------------------------------------------------
(* VecDeque<T, S>: d = [kind = "VecDeque", handle, head, length, capacity, *)
(* storage]                                                                *)

\* struct VecDeque { handle, head, length, capacity, storage }
DequeOf(storage, handle, head, length, capacity) ==
    OwnerOf("VecDeque", storage, handle, head, 0, length, capacity)

\* VecDeque::from_raw_parts: the deque is the parts it is given; the
\* storage is moved into it
deque_from_raw_parts(storage, handle, head, length, capacity, w) ==
    { OwnOutcome(TRUE, NoVec, DequeOf(m.storage, handle, head, length, capacity), m.w, 0)
      : m \in move_storage(storage, w) }

\* VecDeque::with_capacity_in; s is the storage at the place where the new
\* deque holds it
deque_with_capacity_in(s, elem, w, capacity) ==
    IF ~LayoutArrayOk(elem, capacity) THEN {OwnOutcome(FALSE, NoVec, NoOwn, w, 0)}
    ELSE { IF r.ok
           THEN OwnOutcome(TRUE, NoVec,
                           DequeOf(s, r.handle, 0, 0, CapacityOf(elem, r.size)),
                           r.w, 0)
           ELSE OwnOutcome(FALSE, NoVec, NoOwn, r.w, 0)
           : r \in Allocate(s, w, LayoutArray(elem, capacity)) }

\* VecDeque::into_raw_parts: the deque is forgotten (ManuallyDrop), its
\* storage moved out of it (ptr::read) and handed out with its other fields
deque_into_raw_parts(s, elem, d, w) ==
    { OwnOutcome(TRUE, NoVec, [d EXCEPT !.kind = "DequeParts", !.storage = m.storage],
                 m.w, 0)
      : m \in move_storage(s, w) }

\* usize subtraction; it overflows only when length > capacity
is_contiguous(d) == d.head <= d.capacity - d.length

\* the n elements from element `index` of the buffer on
Run(s, elem, d, m, index, n) ==
    [i \in 1..n |->
        Decode(MemRead(m, Resolve(s, d.handle) + (index + i - 1) * elem.size, elem.size))]

\* a pair of slices that never looks past the end of the buffer
as_slices_unwrapped(s, elem, d, m) ==
    LET first_length == Min(d.length, d.capacity - d.head) IN
    <<Run(s, elem, d, m, d.head, first_length), <<>>>>

as_slices(s, elem, d, m) ==
    LET first_length == Min(d.length, d.capacity - d.head) IN
    <<Run(s, elem, d, m, d.head, first_length),
      Run(s, elem, d, m, 0, d.length - first_length)>>

\* todo!(): the call panics
Todo(d, w) == OwnOutcome(FALSE, NoVec, [d EXCEPT !.panicked = TRUE], w, 0)

\* make_contiguous: not ok when it panics; otherwise it returns the slice
\* of `length` elements from `head` on
contiguous_slice(s, elem, d, m) == Run(s, elem, d, m, d.head, d.length)

make_contiguous(s, elem, d, w) ==
    IF ~is_contiguous(d) THEN Todo(d, w)
    ELSE OwnOutcome(TRUE, NoVec, d, w, 0)

\* a reserve_exact that grows the buffer and leaves the run at head where
\* it was
deque_reserve_exact_in_place(s, elem, d, w, extra_capacity) ==
    LET new_capacity == d.length + extra_capacity IN
    IF new_capacity > UsizeMax THEN {OwnOutcome(FALSE, NoVec, d, w, 0)}
    ELSE IF new_capacity < d.capacity THEN {OwnOutcome(TRUE, NoVec, d, w, 0)}
    ELSE IF ~LayoutArrayOk(elem, new_capacity) THEN {OwnOutcome(FALSE, NoVec, d, w, 0)}
    ELSE { IF ~r.ok THEN OwnOutcome(FALSE, NoVec, d, r.w, 0)
           ELSE OwnOutcome(TRUE, NoVec,
                           [d EXCEPT !.handle = r.handle,
                                     !.capacity = CapacityOf(elem, r.size)],
                           r.w, 0)
           : r \in Grow(s, w, LayoutArray(elem, d.capacity),
                        LayoutArray(elem, new_capacity), d.handle) }

deque_reserve_exact(s, elem, d, w, extra_capacity) ==
    LET new_capacity == d.length + extra_capacity
        was_contiguous == is_contiguous(d)
        old_capacity == d.capacity
    IN
    IF new_capacity > UsizeMax THEN {OwnOutcome(FALSE, NoVec, d, w, 0)}
    ELSE IF new_capacity < d.capacity THEN {OwnOutcome(TRUE, NoVec, d, w, 0)}
    ELSE IF ~LayoutArrayOk(elem, new_capacity) THEN {OwnOutcome(FALSE, NoVec, d, w, 0)}
    ELSE { IF ~r.ok THEN OwnOutcome(FALSE, NoVec, d, r.w, 0)
           ELSE LET grown == [d EXCEPT !.handle = r.handle,
                                       !.capacity = CapacityOf(elem, r.size)]
                    ptr == Resolve(s, grown.handle)
                    new_head == (d.head - old_capacity + grown.capacity) % (UsizeMax + 1)
                    n == old_capacity - d.head
                IN IF was_contiguous THEN OwnOutcome(TRUE, NoVec, grown, r.w, 0)
                   ELSE OwnOutcome(TRUE, NoVec, [grown EXCEPT !.head = new_head],
                            [r.w EXCEPT
                               !.mem = MemCopy(@, ptr + d.head * elem.size,
                                               ptr + new_head * elem.size, n * elem.size),
                               !.ub = @ \/ (n > 0 /\ (new_head + n) * elem.size
                                                       > Extent(s, r.w, grown.handle))],
                            0)
           : r \in Grow(s, w, LayoutArray(elem, d.capacity),
                        LayoutArray(elem, new_capacity), d.handle) }

deque_reserve(s, elem, d, w, extra_capacity) ==
    LET new_capacity == d.length + extra_capacity
        doubled_capacity == Max(d.capacity * 2, 1)
    IN
    IF new_capacity > UsizeMax THEN {OwnOutcome(FALSE, NoVec, d, w, 0)}
    ELSE IF new_capacity <= d.capacity THEN {OwnOutcome(TRUE, NoVec, d, w, 0)}
    ELSE IF d.capacity * 2 <= UsizeMax /\ doubled_capacity > new_capacity
    THEN UNION { IF r.ok THEN {r} ELSE deque_reserve_exact(s, elem, r.o, r.w, extra_capacity)
                 : r \in deque_reserve_exact(s, elem, d, w, doubled_capacity) }
    ELSE deque_reserve_exact(s, elem, d, w, extra_capacity)

\* push_back: Err(PushError) carrying the value when reserve fails, and
\* todo!() once there is room
\* the panic unwinds through the argument `value`, which `_ = value` has
\* not moved: its destructor runs
push_back(s, elem, d, w, value) ==
    { IF ~r.ok THEN OwnOutcome(FALSE, NoVec, r.o, r.w, value)
      ELSE Todo(r.o, drop_value(r.w, value))
      : r \in deque_reserve(s, elem, d, w, 1) }

push_front(s, elem, d, w, value) ==
    { IF ~r.ok THEN OwnOutcome(FALSE, NoVec, r.o, r.w, value)
      ELSE Todo(r.o, drop_value(r.w, value))
      : r \in deque_reserve(s, elem, d, w, 1) }

\* a drop that destroys the leading run only
deque_drop_first_run(s, elem, d, w) ==
    LET first_length == Min(d.length, d.capacity - d.head)
        w1 == drop_slice_in_place(s, elem, w, d.handle, d.head, first_length)
        w3 == [w1 EXCEPT !.ub = @ \/ ~LayoutArrayOk(elem, d.capacity)]
    IN OwnOutcome(TRUE, NoVec, NoOwn,
                  Deallocate(s, w3, LayoutArray(elem, d.capacity), d.handle), 0)

\* Drop for VecDeque
deque_drop(s, elem, d, w) ==
    LET first_length == Min(d.length, d.capacity - d.head)
        w1 == drop_slice_in_place(s, elem, w, d.handle, d.head, first_length)
        w2 == drop_slice_in_place(s, elem, w1, d.handle, 0, d.length - first_length)
        w3 == [w2 EXCEPT !.ub = @ \/ ~LayoutArrayOk(elem, d.capacity)]
    IN OwnOutcome(TRUE, NoVec, NoOwn,
                  Deallocate(s, w3, LayoutArray(elem, d.capacity), d.handle), 0)

----------------------------------------------------------------------------
(* The life of one buffer: a Vec is built and then dropped, split into raw *)
(* parts, turned into a VecIntoIter, or its parts are given to a VecDeque. *)
(* Every element pushed is a fresh value, so a value names its element.    *)

LifeConfigs ==
    UNION { { [spec |-> "Life", storage |-> s, elem |-> e] : s \in VecStorages(e) }
            : e \in ElemTypes }

LifeInit ==
    /\ cfg \in LifeConfigs
    /\ mem = [a \in Addrs |-> Uninit]
    /\ heap = {}
    /\ vec = NoVec
    /\ ub = FALSE
    /\ last = NoOp
    /\ rc = NoRc
    /\ blk = NoBlk
    /\ own = NoOwn
    /\ hist = NoHist

\* an outcome of a Vec method, the other owner being o
Own(out, o) == OwnOutcome(out.ok, out.v, o, out.w, out.value)

Alive == cfg.spec = "Life" /\ ~ub /\ ~own.panicked
HasVec == Alive /\ vec.live
IsIter == Alive /\ own.kind = "VecIntoIter"
IsDeque == Alive /\ own.kind = "VecDeque"

LifeWithCapacityIn ==
    /\ Alive /\ last.op = "none"
    /\ \E capacity \in 0..MaxElems :
       \E out \in with_capacity_in(cfg.storage, cfg.elem, W, capacity) :
          OwnStep("with_capacity_in", capacity, 0, <<>>, Own(out, NoOwn), 0, <<>>)

LifeDequeWithCapacityIn ==
    /\ Alive /\ last.op = "none"
    /\ \E capacity \in 0..MaxElems :
       \E out \in deque_with_capacity_in(cfg.storage, cfg.elem, W, capacity) :
          OwnStep("deque_with_capacity_in", capacity, 0, <<>>, out, 0, <<>>)

LifePush ==
    /\ HasVec /\ hist.made < MaxElems
    /\ \E out \in push(vec.storage, cfg.elem, vec, W, hist.made + 1) :
          OwnStep("push", hist.made + 1, 0, <<>>, Own(out, NoOwn),
                  IF out.ok THEN 1 ELSE 0, <<>>)

LifePop ==
    /\ HasVec
    /\ \E out \in pop(vec.storage, cfg.elem, vec, W) :
          OwnStep("pop", 0, 0, <<>>, Own(out, NoOwn), 0,
                  IF out.ok THEN <<out.value>> ELSE <<>>)

LifeRemove ==
    /\ HasVec /\ vec.length > 0
    /\ \E index \in 0..(vec.length - 1) :
       \E out \in remove(vec.storage, cfg.elem, vec, W, index) :
          OwnStep("remove", index, 0, <<>>, Own(out, NoOwn), 0,
                  IF out.ok THEN <<out.value>> ELSE <<>>)

LifeVecDrop ==
    /\ HasVec
    /\ OwnStep("vec_drop", vec.length, 0, <<>>,
               vec_drop(vec.storage, cfg.elem, vec, W), 0, <<>>)

LifeVecIntoRawParts ==
    /\ HasVec
    /\ \E out \in vec_into_raw_parts(vec.storage, cfg.elem, vec, W) :
          OwnStep("into_raw_parts", 0, 0, <<>>, out, 0, <<>>)

\* the caller gives the parts of a Vec back to Vec::from_raw_parts
LifeVecFromRawParts ==
    /\ Alive /\ own.kind = "VecParts"
    /\ \E out \in vec_from_raw_parts(own.storage, own.handle, own.length, own.capacity, W) :
          OwnStep("from_raw_parts", 0, 0, <<>>, out, 0, <<>>)

\* the buffer places a deque of `length` elements with this head occupies
Slots(head, length, capacity) == { (head + i) % capacity : i \in 0..(length - 1) }

\* the caller gives the parts of a Vec to VecDeque::from_raw_parts, with a
\* head and a length whose places all hold elements of the Vec
LifeDequeFromRawParts ==
    /\ Alive /\ own.kind = "VecParts"
    /\ \E head \in 0..own.capacity : \E length \in 0..own.length :
          /\ length > 0 => Slots(head, length, own.capacity) \subseteq 0..(own.length - 1)
          /\ \E out \in deque_from_raw_parts(own.storage, own.handle, head, length,
                                             own.capacity, W) :
                OwnStep("deque_from_raw_parts", head, length, <<>>, out, 0, <<>>)

LifeDequeIntoRawParts ==
    /\ IsDeque
    /\ \E out \in deque_into_raw_parts(own.storage, cfg.elem, own, W) :
          OwnStep("deque_into_raw_parts", 0, 0, <<>>, out, 0, <<>>)

LifeDequeAsSlices ==
    /\ IsDeque
    /\ OwnStep("as_slices", 0, 0, as_slices(own.storage, cfg.elem, own, mem),
               OwnOutcome(TRUE, NoVec, own, W, 0), 0, <<>>)

LifeDequeMakeContiguous ==
    /\ IsDeque
    /\ LET out == make_contiguous(own.storage, cfg.elem, own, W) IN
       OwnStep("make_contiguous", 0, 0,
               IF out.ok THEN contiguous_slice(own.storage, cfg.elem, out.o, out.w.mem)
               ELSE <<>>,
               out, 0, <<>>)

LifeDequePushBack ==
    /\ IsDeque /\ hist.made <= MaxElems
    /\ \E out \in push_back(own.storage, cfg.elem, own, W, hist.made + 1) :
          OwnStep("push_back", hist.made + 1, 0, <<>>, out,
                  IF out.o.panicked THEN 1 ELSE 0, <<>>)

LifeDequePushFront ==
    /\ IsDeque /\ hist.made <= MaxElems
    /\ \E out \in push_front(own.storage, cfg.elem, own, W, hist.made + 1) :
          OwnStep("push_front", hist.made + 1, 0, <<>>, out,
                  IF out.o.panicked THEN 1 ELSE 0, <<>>)


LifeDequeReserveExact ==
    /\ IsDeque
    /\ \E extra_capacity \in 0..MaxElems :
       \E out \in deque_reserve_exact(own.storage, cfg.elem, own, W, extra_capacity) :
          OwnStep("deque_reserve_exact", extra_capacity, own.head, <<>>, out, 0, <<>>)

LifeDequeReserve ==
    /\ IsDeque
    /\ \E extra_capacity \in 0..MaxElems :
       \E out \in deque_reserve(own.storage, cfg.elem, own, W, extra_capacity) :
          OwnStep("deque_reserve", extra_capacity, own.head, <<>>, out, 0, <<>>)

LifeDequeDrop ==
    /\ IsDeque
    /\ OwnStep("deque_drop", own.head, own.length, <<>>,
               deque_drop(own.storage, cfg.elem, own, W), 0, <<>>)

LifeIntoIter ==
    /\ HasVec
    /\ \E out \in iter_new(vec.storage, cfg.elem, vec, W) :
          OwnStep("into_iter", 0, 0, <<>>, out, 0, <<>>)


LifeIterNext ==
    /\ IsIter
    /\ LET out == next(own.storage, cfg.elem, own, W) IN
       OwnStep("next", 0, 0, <<>>, out, 0, IF out.ok THEN <<out.value>> ELSE <<>>)

LifeIterNextBack ==
    /\ IsIter
    /\ LET out == next_back(own.storage, cfg.elem, own, W) IN
       OwnStep("next_back", 0, 0, <<>>, out, 0, IF out.ok THEN <<out.value>> ELSE <<>>)

LifeIterDrop ==
    /\ IsIter
    /\ OwnStep("iter_drop", own.start, own.length, <<>>,
               iter_drop(own.storage, cfg.elem, own, W), 0, <<>>)

LifeNext ==
    \/ LifeWithCapacityIn
    \/ LifeDequeWithCapacityIn
    \/ LifePush
    \/ LifePop
    \/ LifeRemove
    \/ LifeVecDrop
    \/ LifeVecIntoRawParts
    \/ LifeVecFromRawParts
    \/ LifeDequeFromRawParts
    \/ LifeDequeIntoRawParts
    \/ LifeDequeAsSlices
    \/ LifeDequeMakeContiguous
    \/ LifeDequePushBack
    \/ LifeDequePushFront
    \/ LifeDequeReserveExact
    \/ LifeDequeReserve
    \/ LifeDequeDrop

    \/ LifeIntoIter
    \/ LifeIterNext
    \/ LifeIterNextBack
    \/ LifeIterDrop

LifeSpec == LifeInit /\ [][LifeNext]_vars

\* Box and the buffer owners together
OwnerInit == BoxInit \/ LifeInit
OwnerNext == BoxNext \/ LifeNext
OwnerSpec == OwnerInit /\ [][OwnerNext]_vars

----------------------------------------------------------------------------
(* Properties of Vec's ends, VecIntoIter and VecDeque *)

ToSet(seq) == { seq[i] : i \in 1..Len(seq) }
NoDup(seq) == Cardinality(ToSet(seq)) = Len(seq)

\* the values a step destroyed, and the storage calls it made
Destroyed(calls) == EventValues(calls, "drop_in_place")
IsStorageCall(c) == c.op \in {"allocate", "deallocate", "grow", "shrink"}
StorageCalls(calls) == SelectSeq(calls, IsStorageCall)

\* the step destroyed `values`, each once, and then deallocated once, with
\* the layout of `capacity` elements; it touched nothing afterwards
DestroyedThenFreed(calls, values, capacity) ==
    /\ Destroyed(calls) = values
    /\ NoDup(values)
    /\ Len(calls) = Len(values) + 1
    /\ \A i \in 1..Len(values) : calls[i].op = "drop_in_place"
    /\ calls[Len(calls)] = [op |-> "deallocate", size |-> capacity * cfg.elem.size,
                            align |-> cfg.elem.align]

\* the elements the iterator has not yielded
\* a step moved the storage and did nothing else to memory: memory is as it
\* was unless an InlineStorage changed place, and then the bytes it held are
\* at its new place
OnlyStorageMoved(before, after) ==
    /\ after.kind # "Inline" => (after = before /\ mem' = mem)
    /\ after.kind = "Inline"
         => /\ after = [before EXCEPT !.base = after.base]
            /\ after.base \in StoragePlaces(before)
            /\ after.base = before.base => mem' = mem
            /\ MemRead(mem', after.base, after.size)
                 = MemRead(mem, before.base, before.size)

Remaining == iter_as_slice(own.storage, cfg.elem, own, mem)
RemainingAfter == iter_as_slice(own'.storage, cfg.elem, own', mem')

\* C24: dropping a VecIntoIter, after any calls of next and next_back,
\* destroys exactly the elements not yet yielded, each once and none that
\* was yielded, and then frees the backing allocation exactly once.
C24_IterDrop ==
    [][ (cfg.spec = "Life" /\ last'.op = "iter_drop")
          => /\ ~ub'
             /\ DestroyedThenFreed(last'.calls, Remaining, own.capacity)
             /\ ToSet(Remaining) = (1..hist.made) \ ToSet(hist.taken)
             /\ ToSet(Remaining) \cap ToSet(hist.taken) = {}
             /\ hist'.destroyed = Remaining /\ hist'.deallocs = 1
             /\ own'.kind = "none" /\ ~vec'.live ]_vars

\* of three elements the first and the last were yielded, the drop
\* destroyed the one in the middle
C24_Witness ==
    /\ cfg.spec = "Life" /\ last.op = "iter_drop" /\ ~ub
    /\ last.a = 1 /\ last.b = 1
    /\ hist.made = 3 /\ hist.taken = <<1, 3>> /\ hist.destroyed = <<2>>
    /\ hist.deallocs = 1

\* every element was yielded before the drop
C24_WitnessExhausted ==
    /\ cfg.spec = "Life" /\ last.op = "iter_drop" /\ ~ub
    /\ last.b = 0 /\ Len(hist.taken) = 3 /\ hist.destroyed = <<>> /\ hist.deallocs = 1

\* nothing was yielded before the drop
C24_WitnessUntouched ==
    /\ cfg.spec = "Life" /\ last.op = "iter_drop" /\ ~ub
    /\ hist.taken = <<>> /\ Len(hist.destroyed) = 3 /\ hist.deallocs = 1

\* C25: the iterator starts with the elements of the Vec; next returns the
\* front-most remaining element and advances start, next_back returns the
\* back-most and leaves start; each takes one off the remaining length,
\* which size_hint reports; no element is yielded twice; with nothing
\* remaining both return None.
C25_IterNext ==
    [][ cfg.spec = "Life"
          => /\ last'.op = "into_iter"
                  => /\ own'.kind = "VecIntoIter" /\ own'.start = 0
                     /\ RemainingAfter = Slice
                     /\ size_hint(own') = <<vec.length, vec.length>>
                     /\ last'.calls = <<>> /\ heap' = heap /\ ~ub'
                     /\ OnlyStorageMoved(vec.storage, own'.storage)
             /\ (last'.op \in {"next", "next_back"} /\ own.length = 0)
                  => (~last'.ok /\ own' = own /\ last'.calls = <<>> /\ hist' = hist)
             /\ (last'.op \in {"next", "next_back"} /\ own.length > 0)
                  => /\ last'.ok /\ ~ub' /\ mem' = mem /\ heap' = heap
                     /\ own'.length = own.length - 1
                     /\ size_hint(own') = <<own.length - 1, own.length - 1>>
                     /\ last'.value \notin ToSet(hist.taken)
                     /\ StorageCalls(last'.calls) = <<>>
                     /\ Destroyed(last'.calls) = <<>>
             /\ (last'.op = "next" /\ own.length > 0)
                  => /\ last'.value = Head(Remaining)
                     /\ own'.start = own.start + 1
                     /\ RemainingAfter = Tail(Remaining)
             /\ (last'.op = "next_back" /\ own.length > 0)
                  => /\ last'.value = Remaining[own.length]
                     /\ own'.start = own.start
                     /\ RemainingAfter = SubSeq(Remaining, 1, own.length - 1) ]_vars

\* next_back after next: the first and the last of three were yielded
C25_Witness ==
    /\ cfg.spec = "Life" /\ last.op = "next_back" /\ last.ok /\ last.value = 3 /\ ~ub
    /\ own.kind = "VecIntoIter" /\ own.start = 1 /\ own.length = 1
    /\ hist.taken = <<1, 3>>
    /\ iter_as_slice(own.storage, cfg.elem, own, mem) = <<2>>

\* next on an iterator that has yielded all three elements
C25_WitnessNone ==
    /\ cfg.spec = "Life" /\ last.op = "next" /\ ~last.ok /\ ~ub
    /\ own.kind = "VecIntoIter" /\ own.length = 0 /\ Len(hist.taken) = 3

\* the elements of a deque front to back: element i is at buffer place
\* (head + i) mod capacity
Logical(d, m) ==
    [i \in 1..d.length |->
        Decode(MemRead(m, Resolve(d.storage, d.handle)
                            + ((d.head + i - 1) % d.capacity) * cfg.elem.size,
                       cfg.elem.size))]

\* C26: dropping a Vec or a VecDeque destroys every live element (both runs
\* of a wrapped deque) in place exactly once and then deallocates exactly
\* once; the elements taken out by pop / remove are not destroyed.
C26_ContainerDrop ==
    [][ cfg.spec = "Life"
          => /\ last'.op = "vec_drop"
                  => /\ ~ub'
                     /\ DestroyedThenFreed(last'.calls, Slice, vec.capacity)
                     /\ ToSet(Slice) = (1..hist.made) \ ToSet(hist.taken)
             /\ last'.op = "deque_drop"
                  => /\ ~ub'
                     /\ DestroyedThenFreed(last'.calls, Logical(own, mem), own.capacity)
                     /\ ToSet(Logical(own, mem)) \cap ToSet(hist.taken) = {}
                     /\ ToSet(Logical(own, mem)) \subseteq 1..hist.made
             /\ last'.op \in {"vec_drop", "deque_drop"}
                  => /\ hist'.deallocs = 1 /\ hist'.taken = hist.taken
                     /\ own'.kind = "none" /\ ~vec'.live ]_vars

\* a Vec from which an element was popped was dropped with two left
C26_Witness ==
    /\ cfg.spec = "Life" /\ last.op = "vec_drop" /\ ~ub
    /\ hist.made = 3 /\ hist.taken = <<3>> /\ hist.destroyed = <<1, 2>>
    /\ hist.deallocs = 1

\* a wrapped deque was dropped: the run at the end, then the run at 0
C26_WitnessWrapped ==
    /\ cfg.spec = "Life" /\ last.op = "deque_drop" /\ ~ub
    /\ last.a = 2 /\ last.b = 3 /\ hist.destroyed = <<3, 1, 2>> /\ hist.deallocs = 1

\* C27: into_raw_parts of a Box, a Vec and a VecDeque runs no destructor and
\* makes no storage call; the handle returned is that of the container and
\* still valid in the storage returned, the elements are intact there, and
\* the length, capacity and head returned are the container's. The storage
\* returned is the container's, moved out of it: memory is as it was unless
\* an InlineStorage changed place, and then its bytes are at the new place.
C27_IntoRawPartsKeepsAll ==
    [][ (last'.op \in {"into_raw_parts", "deque_into_raw_parts"})
          => LET before == IF vec.live THEN vec.storage ELSE own.storage
                 after == own'.storage
             IN
             /\ last'.calls = <<>> /\ hist' = hist
             /\ heap' = heap /\ ~ub'
             /\ OnlyStorageMoved(before, after)
             /\ cfg.spec = "Box"

                  => /\ own'.kind = "BoxParts" /\ own'.handle = own.handle
                     /\ BoxValue(own', mem') = BoxValue(own, mem)
                     /\ cfg.elem.size <= Extent(after, World(mem', heap'), own'.handle)
             /\ (cfg.spec = "Life" /\ last'.op = "into_raw_parts")
                  => /\ own'.kind = "VecParts" /\ own'.handle = vec.handle
                     /\ own'.length = vec.length /\ own'.capacity = vec.capacity
                     /\ as_slice(after, cfg.elem,
                                 VecOf(after, own'.handle, own'.length, own'.capacity),
                                 mem') = Slice
                     /\ vec.capacity * cfg.elem.size
                          <= Extent(after, World(mem', heap'), own'.handle)
             /\ last'.op = "deque_into_raw_parts"
                  => /\ own'.kind = "DequeParts" /\ own'.handle = own.handle
                     /\ own'.head = own.head /\ own'.length = own.length
                     /\ own'.capacity = own.capacity
                     /\ Logical(own', mem') = Logical(own, mem)
                     /\ own.capacity * cfg.elem.size
                          <= Extent(after, World(mem', heap'), own'.handle) ]_vars

\* the parts of a Vec of three elements on the heap
C27_Witness ==
    /\ cfg.spec = "Life" /\ cfg.storage.kind = "Global" /\ last.op = "into_raw_parts"
    /\ own.kind = "VecParts" /\ own.length = 3 /\ heap # {} /\ ~ub
    /\ as_slice(own.storage, cfg.elem,
                VecOf(own.storage, own.handle, own.length, own.capacity), mem) = <<1, 2, 3>>

\* the parts of a Vec of three elements in an InlineStorage that is at
\* another place than the Vec was built at
C27_WitnessMoved ==
    /\ cfg.spec = "Life" /\ cfg.storage.kind = "Inline" /\ last.op = "into_raw_parts"
    /\ own.kind = "VecParts" /\ own.length = 3 /\ ~ub
    /\ own.storage.base # cfg.storage.base
    /\ as_slice(own.storage, cfg.elem,
                VecOf(own.storage, own.handle, own.length, own.capacity), mem) = <<1, 2, 3>>

\* the parts of a wrapped deque
C27_WitnessDeque ==
    /\ cfg.spec = "Life" /\ last.op = "deque_into_raw_parts" /\ ~ub
    /\ own.kind = "DequeParts" /\ own.head = 1 /\ own.length = 2 /\ own.capacity = 2
    /\ Logical(own, mem) = <<2, 1>>

\* the parts of a Box on the heap
C27_WitnessBox ==
    /\ cfg.spec = "Box" /\ cfg.storage.kind = "Global" /\ last.op = "into_raw_parts"
    /\ own.kind = "BoxParts" /\ heap # {} /\ ~ub /\ BoxValue(own, mem) \in Values

\* C28: for a deque with length <= capacity and head <= capacity, as_slices
\* returns two runs whose concatenation is the logical sequence of exactly
\* `length` elements: the first starts at head with min(length, capacity -
\* head) elements, the second at offset 0 with the rest, and the second is
\* empty iff is_contiguous(), i.e. head <= capacity - length.
C28_AsSlices ==
    (cfg.spec = "Life" /\ last.op = "as_slices" /\ own.kind = "VecDeque")
        => LET first_length == Min(own.length, own.capacity - own.head) IN
           /\ own.length <= own.capacity /\ own.head <= own.capacity
           /\ Len(last.slice) = 2
           /\ last.slice[1] = Run(own.storage, cfg.elem, own, mem, own.head, first_length)
           /\ last.slice[2] = Run(own.storage, cfg.elem, own, mem, 0,
                                  own.length - first_length)
           /\ last.slice[1] \o last.slice[2] = Logical(own, mem)
           /\ Len(last.slice[1]) + Len(last.slice[2]) = own.length
           /\ ToSet(Logical(own, mem)) \subseteq 1..hist.made
           /\ (last.slice[2] = <<>>) <=> is_contiguous(own)
           /\ is_contiguous(own) <=> (own.head <= own.capacity - own.length)

\* a wrapped deque: one element at the end of the buffer, two at its start
C28_Witness ==
    /\ cfg.spec = "Life" /\ last.op = "as_slices" /\ own.kind = "VecDeque" /\ ~ub
    /\ own.head = 2 /\ own.capacity = 3
    /\ last.slice = << <<3>>, <<1, 2>> >>
    /\ ~is_contiguous(own)

\* a deque whose head is at the end of the buffer
C28_WitnessHeadAtEnd ==
    /\ cfg.spec = "Life" /\ last.op = "as_slices" /\ own.kind = "VecDeque" /\ ~ub
    /\ own.head = own.capacity /\ own.length = 2
    /\ last.slice = << <<>>, <<1, 2>> >>

\* C29: after make_contiguous on any deque, wrapped or not, the elements
\* occupy one run that starts at offset 0; the slice returned and the first
\* slice of as_slices hold all `length` elements in logical order and the
\* second slice of as_slices is empty.
C29_MakeContiguous ==
    [][ (cfg.spec = "Life" /\ last'.op = "make_contiguous")
          => /\ last'.ok /\ ~own'.panicked /\ ~ub'
             /\ own'.head = 0
             /\ last'.slice = Logical(own, mem)
             /\ as_slices(own'.storage, cfg.elem, own', mem')
                  = <<Logical(own, mem), <<>>>> ]_vars

\* what make_contiguous does on a deque that does not wrap: it returns the
\* elements in order, from where they are, and changes nothing
C29_WhenContiguous ==
    [][ (cfg.spec = "Life" /\ last'.op = "make_contiguous" /\ is_contiguous(own))
          => /\ last'.ok /\ ~own'.panicked /\ ~ub'
             /\ own' = own /\ mem' = mem
             /\ last'.slice = Logical(own, mem)
             /\ as_slices(own'.storage, cfg.elem, own', mem')
                  = <<Logical(own, mem), <<>>>> ]_vars

\* C30: when the storage can provide one more slot (here: the buffer has a
\* free slot already), push_back(v) returns Ok, adds one to len() and makes
\* v the last element, push_front(v) the first; the elements stored before
\* keep their values and order.
C30_PushBackFront ==
    [][ (cfg.spec = "Life" /\ last'.op \in {"push_back", "push_front"}
         /\ own.length < own.capacity)
          => /\ last'.ok /\ ~own'.panicked /\ ~ub'
             /\ own'.length = own.length + 1
             /\ last'.op = "push_back"
                  => Logical(own', mem') = Append(Logical(own, mem), last'.a)
             /\ last'.op = "push_front"
                  => Logical(own', mem') = <<last'.a>> \o Logical(own, mem) ]_vars

\* what push_back and push_front do: an allocation error that carries the
\* value when reserve(1) fails, a panic that destroys the value otherwise;
\* the elements stay
C30_PushFailsOrPanics ==
    [][ (cfg.spec = "Life" /\ last'.op \in {"push_back", "push_front"}
         /\ cfg.storage.kind # "Slot")
          => /\ ~last'.ok /\ ~ub'
             /\ own'.length = own.length
             /\ Logical(own', mem') = Logical(own, mem)
             /\ own'.panicked \/ last'.value = last'.a
             /\ EventValues(last'.calls, "drop_in_place")
                   = IF own'.panicked THEN <<last'.a>> ELSE <<>>
             /\ own.length < own.capacity => own'.panicked ]_vars


----------------------------------------------------------------------------
(* Growing: reserve and reserve_exact of VecDeque and Vec, shrink_to_fit.  *)

DequeReserveOps == {"deque_reserve", "deque_reserve_exact"}

\* the two slices of a deque, one after the other
Concat(slices) == slices[1] \o slices[2]

\* C31: a successful reserve_exact or reserve of a VecDeque, contiguous or
\* wrapped, leaves the length and the front-to-back element sequence (the
\* concatenation of as_slices) unchanged; when the buffer was wrapped, the
\* run that started at head ends at the end of the grown buffer, head has
\* moved by the capacity increase, and the run at offset 0 is where it was.
C31_DequeReserveKeepsOrder ==
    [][ (cfg.spec = "Life" /\ last'.op \in DequeReserveOps /\ last'.ok)
          => /\ ~ub'
             /\ own'.kind = "VecDeque"
             /\ own'.length = own.length
             /\ own'.capacity >= own.capacity
             /\ Concat(as_slices(own'.storage, cfg.elem, own', mem'))
                   = Concat(as_slices(own.storage, cfg.elem, own, mem))
             /\ Logical(own', mem') = Logical(own, mem)
             /\ ~is_contiguous(own)
                  => LET n == own.capacity - own.head
                         rest == own.length - n
                     IN /\ own'.head = own.head + (own'.capacity - own.capacity)
                        /\ own'.head + n = own'.capacity
                        /\ Run(own'.storage, cfg.elem, own', mem', own'.head, n)
                              = Run(own.storage, cfg.elem, own, mem, own.head, n)
                        /\ Run(own'.storage, cfg.elem, own', mem', 0, rest)
                              = Run(own.storage, cfg.elem, own, mem, 0, rest)
      ]_vars

\* a reserve has grown a wrapped deque whose two runs both hold elements:
\* head has moved
C31_Witness ==
    /\ cfg.spec = "Life" /\ last.op \in DequeReserveOps /\ last.ok /\ ~ub
    /\ own.kind = "VecDeque" /\ own.head > last.b
    /\ own.head < own.capacity /\ own.length > own.capacity - own.head

\* the same through reserve's doubling
C31_WitnessDoubled ==
    /\ cfg.spec = "Life" /\ last.op = "deque_reserve" /\ last.ok /\ ~ub
    /\ own.kind = "VecDeque" /\ own.head > last.b /\ own.length > 0
    /\ own.capacity >= 2 * (own.capacity - (own.head - last.b))

\* the grow calls of a step, and what Vec::reserve(k) needs and doubles to
Grows(calls) == Events(calls, "grow")
Need(v, k) == v.length + k
Doubled(v) == Max(1, 2 * v.capacity)

\* C32: when Vec::reserve(extra) has to grow and max(1, 2 x capacity) covers
\* length + extra, the first request to the storage is for max(1, 2 x
\* capacity) elements, and when Global grants it the new capacity is max(1,
\* 2 x old capacity); when doubling does not cover the need, or the doubled
\* request was refused, exactly length + extra elements are requested.
C32_ReserveDoubles ==
    [][ (cfg.spec = "Vec" /\ last'.op = "reserve" /\ Grows(last'.calls) # <<>>)
          => LET need == Need(vec, last'.a)
                 doubled == Doubled(vec)
                 grows == Grows(last'.calls)
             IN /\ need > vec.capacity
                /\ doubled >= need
                     => /\ grows[1].size = doubled * cfg.elem.size
                        /\ (cfg.storage.kind = "Global" /\ last'.ok /\ Len(grows) = 1)
                              => vec'.capacity = doubled
                        /\ Len(grows) = 2 => grows[2].size = need * cfg.elem.size
                /\ doubled < need
                     => Len(grows) = 1 /\ grows[1].size = need * cfg.elem.size
      ]_vars

\* what the code requests: reserve hands the doubled capacity to
\* reserve_exact as the extra capacity, so the first request is for length
\* + max(1, 2 x capacity) elements when that exceeds the need
C32_RequestsLengthPlusDoubled ==
    [][ (cfg.spec = "Vec" /\ last'.op = "reserve" /\ Grows(last'.calls) # <<>>)
          => LET need == Need(vec, last'.a)
                 doubled == Doubled(vec)
                 grows == Grows(last'.calls)
             IN /\ need > vec.capacity
                /\ doubled > need
                     => /\ grows[1].size = (vec.length + doubled) * cfg.elem.size
                        /\ Len(grows) = 2 => grows[2].size = need * cfg.elem.size
                        /\ Len(grows) = 2 => last'.calls[1].op = "grow"
                /\ doubled <= need
                     => Len(grows) = 1 /\ grows[1].size = need * cfg.elem.size
      ]_vars

\* the claim holds for an empty Vec, where length + doubled = doubled
C32_WhenEmpty ==
    [][ (cfg.spec = "Vec" /\ last'.op = "reserve" /\ Grows(last'.calls) # <<>>
           /\ vec.length = 0 /\ Doubled(vec) >= Need(vec, last'.a))
          => /\ Grows(last'.calls)[1].size = Doubled(vec) * cfg.elem.size
             /\ (cfg.storage.kind = "Global" /\ last'.ok /\ Len(Grows(last'.calls)) = 1)
                   => vec'.capacity = Doubled(vec)
      ]_vars

\* C33: Vec::reserve_exact(extra) calls Storage::grow only when capacity <
\* length + extra, and then asks for a layout of exactly length + extra
\* elements; when capacity >= length + extra (capacity = length + extra
\* included) it returns Ok without a storage call and leaves handle and
\* capacity unchanged.
C33_ReserveExactOnlyWhenShort ==
    [][ (cfg.spec = "Vec" /\ last'.op = "reserve_exact" /\ Need(vec, last'.a) <= UsizeMax)
          => LET need == Need(vec, last'.a) IN
             /\ last'.calls # <<>>
                  => /\ vec.capacity < need
                     /\ Len(last'.calls) = 1 /\ last'.calls[1].op = "grow"
                     /\ last'.calls[1].size = need * cfg.elem.size
             /\ vec.capacity >= need
                  => last'.ok /\ last'.calls = <<>> /\ vec' = vec
      ]_vars

\* what the code does: the early return is taken only when capacity exceeds
\* length + extra; with capacity = length + extra grow is still called, with
\* equal old and new layouts
C33_OnlyWhenNotAbove ==
    [][ (cfg.spec = "Vec" /\ last'.op = "reserve_exact" /\ Need(vec, last'.a) <= UsizeMax)
          => LET need == Need(vec, last'.a) IN
             /\ last'.calls # <<>>
                  => /\ vec.capacity <= need
                     /\ Len(last'.calls) = 1 /\ last'.calls[1].op = "grow"
                     /\ last'.calls[1].size = need * cfg.elem.size
             /\ vec.capacity > need
                  => last'.ok /\ last'.calls = <<>> /\ vec' = vec
             /\ (vec.capacity = need /\ LayoutArrayOk(cfg.elem, need))
                  => Len(last'.calls) = 1
      ]_vars

----------------------------------------------------------------------------
(* The backends once more: Global's realloc and zero sizes, SlotStorage.   *)

\* a successful Global grow / shrink between two non-zero sizes of an
\* allocation whose heap block has the layout the user holds
GlobalResized ==
    /\ cfg.spec = "Storage" /\ cfg.storage.kind = "Global" /\ ~ub
    /\ last'.op \in {"grow", "shrink"} /\ last'.ok
    /\ blk.live /\ blk.size > 0 /\ last'.a > 0 /\ LayoutKept

\* the step was an in-place realloc: one block of the new size, with the
\* alignment the old block was allocated with, that starts with the old bytes
ReallocInPlace ==
    /\ heap' = {Block(blk'.handle, last'.a, blk.align)}
    /\ MemRead(mem', blk'.handle, Min(blk.size, last'.a))
          = MemRead(mem, blk.handle, Min(blk.size, last'.a))

\* the step was the fallback: a new block of the new layout that starts
\* with min(old_size, new_size) old bytes, nothing written outside it, and
\* the old block freed
ReallocFallback ==
    /\ heap' = {Block(blk'.handle, last'.a, last'.b)}
    /\ blk'.handle # blk.handle
    /\ MemRead(mem', blk'.handle, Min(blk.size, last'.a))
          = MemRead(mem, blk.handle, Min(blk.size, last'.a))
    /\ ~ub'

\* C34: in a Global grow / shrink between two non-zero sizes, an in-place
\* heap realloc is used when the new alignment does not exceed the old one;
\* when the new alignment is larger, the fallback allocates a new block,
\* copies exactly min(old_size, new_size) bytes from the old block (never
\* more than the new block holds), and then frees the old block.
C34_GlobalRealloc ==
    [][ GlobalResized
          => /\ last'.b <= blk.align => ReallocInPlace /\ ~ub'
             /\ last'.b > blk.align => ReallocFallback
      ]_vars

\* the fallback copies old_size bytes: the claim holds of every grow, and
\* of the shrinks that do not raise the alignment or keep the size
C34_WhenOldFits ==
    [][ (GlobalResized /\ (last'.b <= blk.align \/ blk.size <= last'.a))
          => /\ last'.b <= blk.align => ReallocInPlace /\ ~ub'
             /\ last'.b > blk.align => ReallocFallback
      ]_vars

\* a shrink that raises the alignment writes old_size bytes into the new,
\* smaller block
C34_ShrinkOverflows ==
    [][ (GlobalResized /\ last'.b > blk.align /\ blk.size > last'.a) => ub' ]_vars

\* the deallocate calls of the last step
Deallocs == Events(last.calls, "deallocate")

\* C35: every deallocate call made by Rc (in Drop when the strong count
\* reaches zero, and in into_inner) passes the layout of the whole region
\* that new_in allocated, the layout of {strong count, value}, and not the
\* smaller layout of the value alone.
C35_RcDeallocatesWholeRegion ==
    cfg.spec = "Rc"
        => \A i \in DOMAIN Deallocs :
              /\ Deallocs[i].size = RcInnerLayout(cfg.elem).size
              /\ Deallocs[i].align = RcInnerLayout(cfg.elem).align

\* what the code passes: the layout of the value alone, in Drop and in
\* into_inner
C35_PassesValueLayout ==
    cfg.spec = "Rc"
        => /\ \A i \in DOMAIN Deallocs :
                 /\ Deallocs[i].size = cfg.elem.size
                 /\ Deallocs[i].align = cfg.elem.align
                 /\ Deallocs[i].size < RcInnerLayout(cfg.elem).size
           /\ Deallocs # <<>> => last.op \in {"drop", "into_inner"}

\* a successful SlotStorage grow / shrink of an allocation that lies inside
\* the buffer
SlotResized ==
    /\ cfg.spec = "Storage" /\ cfg.storage.kind = "Slot" /\ ~ub
    /\ last'.op \in {"grow", "shrink"} /\ last'.ok
    /\ blk.live /\ blk.handle + blk.size <= cfg.storage.size

\* the bytes grow / shrink has to carry over: old.size() for a grow,
\* new.size() for a shrink
Carried == IF last'.op = "grow" THEN blk.size ELSE last'.a

\* C36: a successful SlotStorage::grow(old, new, h) returns a handle whose
\* first old.size() bytes are the bytes that were at h, and a successful
\* shrink one whose first new.size() bytes are the first new.size() bytes
\* that were at h, also when the two regions overlap inside the buffer; the
\* copy never reads or writes outside the buffer.
C36_SlotGrowShrinkCopies ==
    [][ SlotResized
          => /\ ~ub'
             /\ blk'.handle + Carried <= cfg.storage.size
             /\ MemRead(mem', SlotResolve(cfg.storage, blk'.handle), Carried)
                   = MemRead(mem, SlotResolve(cfg.storage, blk.handle), Carried)
      ]_vars

\* C36 holds whenever the new layout fits the buffer behind the new offset
C36_WhenNewFits ==
    [][ (SlotResized /\ blk'.handle + last'.a <= cfg.storage.size)
          => /\ ~ub'
             /\ blk'.handle + Carried <= cfg.storage.size
             /\ MemRead(mem', SlotResolve(cfg.storage, blk'.handle), Carried)
                   = MemRead(mem, SlotResolve(cfg.storage, blk.handle), Carried)
      ]_vars

\* a grow moved written bytes between two regions that overlap
C36_WitnessOverlap ==
    /\ cfg.spec = "Storage" /\ cfg.storage.kind = "Slot" /\ ~ub
    /\ last.op = "grow" /\ last.ok /\ blk.live /\ Len(blk.data) >= 2
    /\ blk.handle = 1 /\ blk.handle + blk.size <= cfg.storage.size
    /\ Content(Len(blk.data)) = blk.data

\* C37: the result of SlotStorage::allocate depends only on the buffer and
\* the requested alignment, never on earlier allocations or the requested
\* size: two successive allocate calls with the same alignment return equal
\* handles that resolve to the same address, so the second allocation
\* aliases the first, and allocate and deallocate change no state.
C37_SlotAllocateAliases ==
    [][ (cfg.spec = "Storage" /\ cfg.storage.kind = "Slot" /\ ~ub)
          => /\ last'.op = "allocate"
                  => LET offset == AlignOffset(cfg.storage.base, last'.b) IN
                     /\ last'.ok = (offset <= cfg.storage.size)
                     /\ last'.ok => /\ last'.handle = offset
                                    /\ last'.size = cfg.storage.size - offset
                     /\ (last'.ok /\ blk.live /\ blk.align = last'.b)
                           => /\ blk'.handle = blk.handle
                              /\ SlotResolve(cfg.storage, blk'.handle)
                                    = SlotResolve(cfg.storage, blk.handle)
                     /\ mem' = mem /\ heap' = heap /\ ~ub'
             /\ last'.op = "deallocate"
                  => mem' = mem /\ heap' = heap /\ ~ub'
      ]_vars

\* a second allocate with the alignment of an allocation that holds written
\* bytes: the new handle is the old one and reads the bytes of the first
C37_Witness ==
    /\ cfg.spec = "Storage" /\ cfg.storage.kind = "Slot" /\ ~ub
    /\ last.op = "allocate" /\ last.ok /\ last.n = 3 /\ blk.path = <<"allocate">>
    /\ blk.size >= 1 /\ blk.handle + blk.size <= cfg.storage.size
    /\ \A i \in 1..blk.size : Content(blk.size)[i] # Uninit

\* a deallocate of an allocation that holds written bytes left them there
C37_WitnessDeallocate ==
    /\ cfg.spec = "Storage" /\ cfg.storage.kind = "Slot" /\ ~ub
    /\ last.op = "deallocate" /\ last.n = 3
    /\ mem[SlotResolve(cfg.storage, last.handle)] # Uninit

\* the heap holds the block of the non-zero allocation held and no other
HeapBalanced(b, h) ==
    IF b.live /\ b.size > 0
    THEN Cardinality(h) = 1 /\ \A x \in h : x.addr = b.handle /\ x.size = b.size
    ELSE h = {}

\* C38: Global::allocate with a zero-size layout always succeeds, returns a
\* sentinel handle derived only from the requested alignment with usable
\* size 0, and never calls the heap; Global::deallocate with a zero-size
\* layout never calls the heap's free; so the heap holds a block exactly
\* while a non-zero allocation is held, each one being freed once.
C38_GlobalZeroSize ==
    [][ (cfg.spec = "Storage" /\ cfg.storage.kind = "Global" /\ ~ub)
          => /\ (last'.op = "allocate" /\ last'.a = 0)
                  => /\ last'.ok /\ last'.handle = Dangling(Layout(0, last'.b))
                     /\ last'.size = 0
                     /\ heap' = heap /\ mem' = mem /\ ~ub'
             /\ (last'.op = "deallocate" /\ last'.a = 0)
                  => heap' = heap /\ mem' = mem /\ ~ub'
             /\ (last'.op = "deallocate" /\ last'.a > 0 /\ LayoutKept)
                  => heap' = {} /\ Cardinality(heap) = 1 /\ ~ub'
             /\ ~ub' => HeapBalanced(blk', heap')
      ]_vars

\* a zero-size allocation was made and deallocated, the heap never holding
\* a block
C38_Witness ==
    /\ cfg.spec = "Storage" /\ cfg.storage.kind = "Global" /\ ~ub
    /\ last.op = "deallocate" /\ last.a = 0 /\ last.n = 2 /\ heap = {}

\* a non-zero allocation was shrunk to size zero: its block is freed and
\* the handle is the sentinel

C38_WitnessShrunkToZero ==
    /\ cfg.spec = "Storage" /\ cfg.storage.kind = "Global" /\ ~ub
    /\ last.op = "shrink" /\ last.ok /\ last.a = 0 /\ blk.first.size > 0
    /\ blk.live /\ blk.handle = Dangling(Layout(0, blk.align)) /\ heap = {}

\* C39: Vec::shrink_to_fit, when it succeeds, leaves length and the element
\* sequence unchanged with a new capacity >= length (equal to length on
\* Global, which returns exactly the requested size); when the storage's
\* shrink fails it returns the error and leaves handle, capacity, length and
\* contents unchanged; when capacity = length it makes no storage call.
C39_ShrinkToFit ==
    [][ (cfg.spec = "Vec" /\ last'.op = "shrink_to_fit")
          => /\ last'.ok
                  => /\ ~ub'
                     /\ vec'.length = vec.length
                     /\ SliceAfter = Slice
                     /\ vec'.capacity >= vec'.length
                     /\ cfg.storage.kind = "Global" => vec'.capacity = vec.length
             /\ ~last'.ok
                  => /\ last'.alloc_error /\ ~ub'
                     /\ vec' = vec /\ SliceAfter = Slice
                     /\ heap' = heap /\ mem' = mem
             /\ vec.capacity = vec.length
                  => last'.ok /\ last'.calls = <<>> /\ vec' = vec
             /\ vec.capacity # vec.length
                  => /\ Len(last'.calls) = 1 /\ last'.calls[1].op = "shrink"
                     /\ last'.calls[1].size = vec.length * cfg.elem.size
      ]_vars

\* a Vec that holds elements and spare capacity was shrunk on Global
C39_Witness ==
    /\ cfg.spec = "Vec" /\ cfg.storage.kind = "Global" /\ ~ub
    /\ last.op = "shrink_to_fit" /\ last.ok /\ last.calls # <<>>
    /\ vec.length >= 2 /\ vec.capacity = vec.length

\* the storage refused to shrink a Vec that holds elements
C39_WitnessRefused ==
    /\ cfg.spec = "Vec" /\ ~ub
    /\ last.op = "shrink_to_fit" /\ ~last.ok /\ vec.length >= 1
    /\ vec.capacity > vec.length

\* shrink_to_fit on a full Vec
C39_WitnessFull ==
    /\ cfg.spec = "Vec" /\ ~ub
    /\ last.op = "shrink_to_fit" /\ last.ok /\ last.calls = <<>> /\ vec.length >= 1

\* reserve_exact(k) would succeed from the state before the step
ExactWouldSucceed(k) ==
    \E o \in reserve_exact(cfg.storage, cfg.elem, vec, W, k) : o.ok

\* reserve(k) tried the doubled request first and was refused
DoublingRefused(calls) == Len(Grows(calls)) = 2

\* C40: on InlineStorage, from every Vec state and for every k, reserve(k)
\* succeeds if and only if reserve_exact(k) would succeed from the same
\* state: a refused doubling attempt leaves the Vec unchanged and is
\* followed by the exact request, so reserve never fails where
\* reserve_exact would succeed.
C40_ReserveAsExactOnInline ==
    [][ (cfg.spec = "Vec" /\ cfg.storage.kind = "Inline" /\ last'.op = "reserve")
          => LET k == last'.a
                 need == Need(vec, k)
             IN /\ last'.ok = ExactWouldSucceed(k)
                /\ ~ub'
                /\ ~last'.ok => vec' = vec /\ mem' = mem
                /\ (need <= UsizeMax /\ need > vec.capacity /\ Doubled(vec) > need)
                     => /\ DoublingRefused(last'.calls)
                        /\ Grows(last'.calls)[2].size = need * cfg.elem.size
                /\ last'.ok => vec'.capacity >= need /\ SliceAfter = Slice
      ]_vars

\* reserve on a Vec that holds an element in an InlineStorage: the doubled
\* request and then the exact request were refused
C40_Witness ==
    /\ cfg.spec = "Vec" /\ cfg.storage.kind = "Inline" /\ ~ub
    /\ last.op = "reserve" /\ ~last.ok /\ DoublingRefused(last.calls)
    /\ vec.length >= 1 /\ vec.capacity >= 1

\* reserve succeeded with capacity = length + k, where reserve_exact calls
\* grow on the InlineStorage and is granted
C40_WitnessExactFit ==
    /\ cfg.spec = "Vec" /\ cfg.storage.kind = "Inline" /\ ~ub
    /\ last.op = "reserve" /\ last.ok /\ last.calls = <<>>
    /\ vec.length >= 1 /\ last.a >= 1 /\ vec.length + last.a = vec.capacity

====
